---- MODULE Spec2Model ----
(***************************************************************************)
(* ataritron: the Memory store (src/src/memory.rs) and the Cpu register    *)
(* file with its fetch/decode stage (src/src/cpu.rs), as a state machine.  *)
(*                                                                         *)
(* Six specifications share the variables:                                 *)
(*   SpecMem   a Memory on its own, from before Memory::new, driven by     *)
(*             load and store;                                             *)
(*   SpecRom   the same Memory driven by store and load_rom;               *)
(*   Spec      a Cpu constructed by Cpu::new over a memory image, driven   *)
(*             by reset, fetch and the register assignments of             *)
(*             cpu/tests.rs;                                               *)
(*   SpecAddr  a Cpu driven by reset, load_little_endian_u16,              *)
(*             get_effective_address and get_operand;                      *)
(*   SpecRun   a Cpu over the same images driven by reset, fetch, the      *)
(*             resolution of the fetched instruction and flag operations;  *)
(*   SpecFlags cpu/flags.rs over every value of sr.                        *)
(*                                                                         *)
(* Arithmetic on u16 is `+` in the source: an overflow panics when the     *)
(* build has overflow checks (debug, `cargo test`) and wraps when it has   *)
(* not (release).  The build is fixed per run: overflow_checks.            *)
(***************************************************************************)
EXTENDS Integers, Sequences, FiniteSets, TLC

VARIABLES
    phase,            \* "boot" | "mem" | "cpu" | "panicked"
    overflow_checks,  \* the build: TRUE = arithmetic overflow panics
    memory,           \* Memory {data, size}
    pc, a, x, y, sp, sr, cycles_busy,   \* Cpu registers
    last,             \* the last call: its name, arguments and return value
    calls,            \* number of calls made so far (bounded)
    pc0, consumed,    \* history: pc at the last new/reset, instructions fetched since
    written           \* history: address -> byte of its last successful store

vars == <<phase, overflow_checks, memory, pc, a, x, y, sp, sr, cycles_busy,
          last, calls, pc0, consumed, written>>

cpuRegs == <<pc, a, x, y, sp, sr, cycles_busy>>

-----------------------------------------------------------------------------
(* Bounds of the model *)

MaxRomLen == 3
MaxMemCalls == 3
MaxCpuCalls == 3

-----------------------------------------------------------------------------
(* Program constants *)

MinMemorySize == 13824
MaxAddress == 65535
U16 == 65536
U8 == 256
CartridgeStart == 4096
ResetVector == 65532
StackTop == 255

-----------------------------------------------------------------------------
(* Result values: Ok(v), Err(OutOfRangeError {value, min, max}), a panic *)

Ok(v) == [tag |-> "Ok", val |-> v]
OutOfRangeError(value, min, max) ==
    [tag |-> "Err", val |-> [value |-> value, min |-> min, max |-> max]]
Panic == [tag |-> "Panic"]

IsOk(r) == r.tag = "Ok"
IsErr(r) == r.tag = "Err"
IsPanic(r) == r.tag = "Panic"

(* u16 `lhs + rhs`: panics on overflow in a build with overflow checks     *)
(* (checked), wraps otherwise                                              *)
add_u16(checked, lhs, rhs) ==
    IF lhs + rhs > MaxAddress /\ checked
    THEN Panic
    ELSE Ok((lhs + rhs) % U16)

(* u16 `lhs - rhs`: the same for a result below 0 *)
sub_u16(checked, lhs, rhs) ==
    IF lhs - rhs < 0 /\ checked
    THEN Panic
    ELSE Ok((lhs - rhs + U16) % U16)

-----------------------------------------------------------------------------
(* Memory.data: a Vec<u8> of len bytes, kept as a step function: runs maps *)
(* 0 and every index whose byte differs from the byte before it to that    *)
(* byte, which holds up to the next such index.  A vector has exactly one  *)
(* such value, however it was written, and a 64 kB vector of few distinct  *)
(* stretches is a small one.  DataAt is indexing, DataSet is indexed       *)
(* assignment.                                                             *)

vec(byte, n) == [len |-> n, runs |-> [p \in {0} |-> byte]]

RunOf(data, i) ==
    CHOOSE p \in DOMAIN data.runs :
        p <= i /\ \A q \in DOMAIN data.runs : q <= i => q <= p

DataAt(data, i) == data.runs[RunOf(data, i)]

DataSet(data, i, byte) ==
    LET at(p) == IF p = i THEN byte ELSE DataAt(data, p)
        keep  == {p \in DOMAIN data.runs \cup {i, i + 1} :
                     p < data.len /\ (p = 0 \/ at(p) # at(p - 1))}
    IN  [data EXCEPT !.runs = [p \in keep |-> at(p)]]

-----------------------------------------------------------------------------
(* memory.rs *)

address_in_bounds_le(addr, size) == addr <= size

address_in_bounds(addr, size) == addr < size

Memory_new_no_64k(size) ==
    IF ~(size >= MinMemorySize /\ size <= MaxAddress)
    THEN OutOfRangeError(size, MinMemorySize, MaxAddress + 1)
    ELSE Ok([data |-> vec(0, size), size |-> size])

Memory_new(size) ==
    IF ~(size >= MinMemorySize /\ size <= MaxAddress + 1)
    THEN OutOfRangeError(size, MinMemorySize, MaxAddress + 1)
    ELSE Ok([data |-> vec(0, size), size |-> size])

load(m, addr) ==
    IF address_in_bounds(addr, m.size)
    THEN Ok(DataAt(m.data, addr))
    ELSE OutOfRangeError(addr, 0, m.size - 1)

(* store returns its Result (res) and the memory it leaves (mem) *)
store_next_cell(m, addr, byte) ==
    IF address_in_bounds(addr, m.size)
    THEN [res |-> Ok(<<>>),
          mem |-> [m EXCEPT !.data = DataSet(m.data, (addr + 1) % m.size, byte)]]
    ELSE [res |-> OutOfRangeError(addr, 0, m.size - 1), mem |-> m]

store(m, addr, byte) ==
    IF address_in_bounds(addr, m.size)
    THEN [res |-> Ok(<<>>), mem |-> [m EXCEPT !.data = DataSet(m.data, addr, byte)]]
    ELSE [res |-> OutOfRangeError(addr, 0, m.size - 1), mem |-> m]

(* load_rom: for (i, byte) in rom.iter().enumerate()                       *)
(*               { self.store(addr + (i as u16), *byte).unwrap(); }        *)
(* One iteration: addr + (i as u16) panics or wraps on overflow, the byte  *)
(* is stored there, and unwrap panics when the store is an Err.            *)
load_rom_step(checked, m, addr, rom, i) ==
    LET target == add_u16(checked, addr, i % U16)
        stored == store(m, target.val, rom[i + 1])
    IN  IF IsPanic(target) THEN [res |-> Panic, mem |-> m]
        ELSE IF IsErr(stored.res) THEN [res |-> Panic, mem |-> stored.mem]
        ELSE stored

(* iterations lo .. hi-1 in ascending order, stopping at the first panic   *)
(* (the range is halved so that the evaluation stays shallow)              *)
RECURSIVE load_rom_range(_, _, _, _, _, _)
load_rom_range(checked, m, addr, rom, lo, hi) ==
    IF lo >= hi THEN [res |-> Ok(<<>>), mem |-> m]
    ELSE IF hi = lo + 1 THEN load_rom_step(checked, m, addr, rom, lo)
    ELSE LET mid  == (lo + hi) \div 2
             left == load_rom_range(checked, m, addr, rom, lo, mid)
         IN  IF IsPanic(left.res) THEN left
             ELSE load_rom_range(checked, left.mem, addr, rom, mid, hi)

load_rom_skip_first(checked, m, addr, rom) ==
    load_rom_range(checked, m, addr, rom, 1, Len(rom))

load_rom(checked, m, addr, rom) == load_rom_range(checked, m, addr, rom, 0, Len(rom))

-----------------------------------------------------------------------------
(* Inputs of the Memory specifications (the values of memory.rs's tests    *)
(* and the boundaries of its range checks)                                 *)

MemSizes == {MinMemorySize - 1, MinMemorySize, 16 * 1024, MaxAddress + 1, MaxAddress + 2}

MemAddrs == {0, MinMemorySize - 1, MinMemorySize, 16 * 1024, MaxAddress - 1, MaxAddress}

MemBytes == {0, 119}

(* rom images: a pattern of distinct bytes, cut to every length up to      *)
(* MaxRomLen, and the whole-memory image vec![0xff; 65536] of              *)
(* memory_can_load_whole_memory                                            *)
PatternRom(n) == [i \in 1 .. n |-> (171 + 34 * (i - 1)) % U8]

WholeRom == [i \in 1 .. MaxAddress + 1 |-> 255]

Roms == {PatternRom(n) : n \in 0 .. MaxRomLen}

(* where SpecRom loads roms (the start, the end of the smallest memory,    *)
(* the end of the address space) and where it stores single bytes before   *)
RomAddrs == {0, MinMemorySize - 1, MaxAddress - 1}

RomStoreAddrs == {0, 2, MaxAddress}

NoMemory == [data |-> vec(0, 0), size |-> 0]

NoWrites == [t \in {} |-> 0]

Call(op, args, res) == [op |-> op, args |-> args, res |-> res]

NoCall == Call("none", <<>>, Ok(<<>>))

-----------------------------------------------------------------------------
(* cpu.rs, Cpu::new: the Cpu is the record of its fields; it takes the     *)
(* memory it is given                                                      *)

Cpu_new_pc_zero(mem) ==
    [sp |-> StackTop, pc |-> 0, a |-> 0, x |-> 0, y |-> 0, sr |-> 0,
     memory |-> mem, cycles_busy |-> 0]

Cpu_new(mem) ==
    [sp |-> StackTop, pc |-> CartridgeStart, a |-> 0, x |-> 0, y |-> 0, sr |-> 0,
     memory |-> mem, cycles_busy |-> 0]

-----------------------------------------------------------------------------
(* A Memory on its own *)

InitMem ==
    /\ phase = "boot"
    /\ overflow_checks \in BOOLEAN
    /\ memory = NoMemory
    /\ pc = 0 /\ a = 0 /\ x = 0 /\ y = 0 /\ sp = 0 /\ sr = 0 /\ cycles_busy = 0
    /\ last = NoCall
    /\ calls = 0
    /\ pc0 = 0 /\ consumed = <<>>
    /\ written = NoWrites

(* let mem = Memory::new(size) *)
MemNew(size) ==
    /\ phase = "boot"
    /\ \E r \in {Memory_new(size)} :
           /\ last' = Call("Memory::new", <<size>>, IF IsOk(r) THEN Ok(<<>>) ELSE r)
           /\ IF IsOk(r)
              THEN phase' = "mem" /\ memory' = r.val
              ELSE UNCHANGED <<phase, memory>>
    /\ UNCHANGED <<overflow_checks, cpuRegs, calls, pc0, consumed, written>>

(* mem.load(addr) *)
MemLoad(addr) ==
    /\ phase = "mem"
    /\ calls < MaxMemCalls
    /\ calls' = calls + 1
    /\ last' = Call("load", <<addr>>, load(memory, addr))
    /\ UNCHANGED <<phase, overflow_checks, memory, cpuRegs, pc0, consumed, written>>

(* mem.store(addr, byte) *)
MemStore(addr, byte) ==
    /\ phase = "mem"
    /\ calls < MaxMemCalls
    /\ calls' = calls + 1
    /\ \E r \in {store(memory, addr, byte)} :
           /\ last' = Call("store", <<addr, byte>>, r.res)
           /\ memory' = r.mem
           /\ written' = IF IsOk(r.res)
                         THEN [t \in DOMAIN written \cup {addr} |->
                                  IF t = addr THEN byte ELSE written[t]]
                         ELSE written
    /\ UNCHANGED <<phase, overflow_checks, cpuRegs, pc0, consumed>>

(* mem.load_rom(addr, &rom): a panic unwinds and ends the run *)
MemLoadRom(addr, rom) ==
    /\ phase = "mem"
    /\ calls < MaxMemCalls
    /\ calls' = calls + 1
    /\ \E r \in {load_rom(overflow_checks, memory, addr, rom)} :
           /\ last' = Call("load_rom", <<addr, rom>>, r.res)
           /\ memory' = r.mem
           /\ phase' = IF IsPanic(r.res) THEN "panicked" ELSE phase
    /\ UNCHANGED <<overflow_checks, cpuRegs, pc0, consumed, written>>

(* let cpu = Cpu::new(mem): the memory moves into the Cpu *)
CpuNew ==
    /\ phase = "mem"
    /\ \E cpu \in {Cpu_new(memory)} :
           /\ sp' = cpu.sp /\ pc' = cpu.pc /\ a' = cpu.a /\ x' = cpu.x /\ y' = cpu.y
           /\ sr' = cpu.sr /\ memory' = cpu.memory /\ cycles_busy' = cpu.cycles_busy
           /\ pc0' = cpu.pc /\ consumed' = <<>>
    /\ phase' = "cpu"
    /\ last' = Call("Cpu::new", <<>>, Ok(<<>>))
    /\ UNCHANGED <<overflow_checks, calls, written>>

(* memory_can_load_whole_memory: the 65536-byte image, loaded at address 0 *)
(* into a memory nothing was written to yet                                *)
MemLoadWholeRom ==
    /\ calls = 0
    /\ MemLoadRom(0, WholeRom)

(* SpecMem: Memory::new, load and store, and Cpu::new over the result *)
NextMem ==
    \/ \E size \in MemSizes : MemNew(size)
    \/ \E addr \in MemAddrs : MemLoad(addr)
    \/ \E addr \in MemAddrs, byte \in MemBytes : MemStore(addr, byte)
    \/ CpuNew

SpecMem == InitMem /\ [][NextMem]_vars

(* SpecRom: Memory::new, store and load_rom *)
NextRom ==
    \/ \E size \in MemSizes : MemNew(size)
    \/ \E addr \in RomStoreAddrs, byte \in MemBytes : MemStore(addr, byte)
    \/ \E addr \in RomAddrs, rom \in Roms : MemLoadRom(addr, rom)
    \/ MemLoadWholeRom

SpecRom == InitMem /\ [][NextRom]_vars

-----------------------------------------------------------------------------
(* Properties of memory.rs *)

(* Two memories hold the same byte at every address outside                *)
(* [from, from + n): as both are step functions it is enough to compare    *)
(* them where either one changes value and right after the stretch.        *)
SameBytesOutside(m1, m2, from, n) ==
    /\ m1.size = m2.size
    /\ \A t \in DOMAIN m1.data.runs \cup DOMAIN m2.data.runs \cup {0, from + n} :
           (t < m1.size /\ ~(from <= t /\ t < from + n)) => load(m1, t) = load(m2, t)

(* Every byte of the memory is 0 *)
AllZero(m) ==
    \A t \in DOMAIN m.data.runs \cup MemAddrs : t < m.size => load(m, t) = Ok(0)

(* C7: Memory::new(size) succeeds exactly when 13824 <= size <= 65536;     *)
(* otherwise it returns an OutOfRangeError; on success the memory has size *)
(* bytes and every one of them reads as 0.                                 *)
C7_NewRangeAndZeroFill ==
    last.op = "Memory::new" =>
        /\ IsOk(last.res) <=> (13824 <= last.args[1] /\ last.args[1] <= 65536)
        /\ ~IsOk(last.res) => IsErr(last.res) /\ phase = "boot"
        /\ IsOk(last.res) =>
               /\ phase = "mem"
               /\ memory.size = last.args[1]
               /\ memory.data.len = last.args[1]
               /\ AllZero(memory)
               /\ IsErr(load(memory, last.args[1]))

C7_Witness ==
    /\ last.op = "Memory::new" /\ IsOk(last.res) /\ last.args[1] = 65536
    /\ load(memory, 65535) = Ok(0)

(* C8: load(addr) and store(addr, b) return an OutOfRangeError exactly     *)
(* when addr >= size and succeed otherwise; a failed store changes no byte *)
(* of memory, and load never changes memory.                               *)
C8_BoundsAndFrame ==
    /\ [](last.op \in {"load", "store"} =>
              /\ IsErr(last.res) <=> last.args[1] >= memory.size
              /\ IsOk(last.res) <=> last.args[1] < memory.size)
    /\ [][/\ last'.op = "load" => memory' = memory
          /\ (last'.op = "store" /\ IsErr(last'.res)) =>
                 memory' = memory /\ SameBytesOutside(memory, memory', 0, 0)]_vars

C8_Witness ==
    /\ last.op = "store" /\ IsErr(last.res) /\ last.args[1] = memory.size
    /\ DOMAIN written # {}

(* C9: after a successful store(addr, b), load(addr) returns b, every      *)
(* other byte and the size are unchanged; so at any time load(t) returns   *)
(* the byte of the last successful store to t, or 0 if there was none, and *)
(* the size never changes after Memory::new.                               *)
C9_StoreThenLoad ==
    /\ [](phase = "mem" =>
              \A t \in DOMAIN memory.data.runs \cup MemAddrs
                           \cup {w + 1 : w \in DOMAIN written} :
                  t < memory.size =>
                      load(memory, t) = Ok(IF t \in DOMAIN written THEN written[t] ELSE 0))
    /\ [][(last'.op = "store" /\ IsOk(last'.res)) =>
              /\ load(memory', last'.args[1]) = Ok(last'.args[2])
              /\ SameBytesOutside(memory, memory', last'.args[1], 1)]_vars
    /\ [][phase = "mem" => memory'.size = memory.size /\ memory'.data.len = memory.size]_vars

C9_Witness ==
    /\ last.op = "store" /\ IsOk(last.res) /\ last.args = <<65535, 119>>
    /\ Cardinality(DOMAIN written) = 2
    /\ 0 \in DOMAIN written /\ written[0] = 0
    /\ load(memory, 65535) = Ok(119)

(* C10: load_rom(addr, bytes) with addr + len(bytes) <= size returns       *)
(* normally; afterwards the byte at addr + i is bytes[i] for every i, and  *)
(* every byte outside [addr, addr + len(bytes)) and the size are           *)
(* unchanged.  This holds for 65536 bytes at address 0 of a 65536-byte     *)
(* memory.                                                                 *)
C10_LoadRomInRange ==
    [][(last'.op = "load_rom" /\ last'.args[1] + Len(last'.args[2]) <= memory.size) =>
          /\ IsOk(last'.res)
          /\ phase' = "mem"
          /\ \A i \in 0 .. Len(last'.args[2]) - 1 :
                 load(memory', last'.args[1] + i) = Ok(last'.args[2][i + 1])
          /\ SameBytesOutside(memory, memory', last'.args[1], Len(last'.args[2]))]_vars

C10_Witness ==
    /\ last.op = "load_rom" /\ IsOk(last.res)
    /\ last.args[1] = 0 /\ Len(last.args[2]) = 65536
    /\ memory.size = 65536
    /\ load(memory, 0) = Ok(255) /\ load(memory, 65535) = Ok(255)

(* C11: load_rom(addr, bytes) with some addr + i >= size panics at the     *)
(* first such index i: the bytes below i are stored at addr .. addr+i-1,   *)
(* and no byte at index i or above is stored anywhere.                     *)
C11_LoadRomAbortsAtFirstBadIndex ==
    [][(/\ last'.op = "load_rom"
        /\ \E i \in 0 .. Len(last'.args[2]) - 1 : last'.args[1] + i >= memory.size) =>
          LET addr  == last'.args[1]
              rom   == last'.args[2]
              first == IF addr >= memory.size THEN 0 ELSE memory.size - addr
          IN  /\ IsPanic(last'.res)
              /\ phase' = "panicked"
              /\ \A i \in 0 .. first - 1 : load(memory', addr + i) = Ok(rom[i + 1])
              /\ SameBytesOutside(memory, memory', addr, first)]_vars

(* C12: Cpu::new(memory) yields sp = 0xFF, pc = 0x1000, a = x = y = sr = 0 *)
(* and cycles_busy = 0, over a memory with the contents and the size of    *)
(* the memory passed in.                                                   *)
C12_NewCpu ==
    [][last'.op = "Cpu::new" =>
          /\ sp' = 255 /\ pc' = 4096
          /\ a' = 0 /\ x' = 0 /\ y' = 0 /\ sr' = 0
          /\ cycles_busy' = 0
          /\ memory' = memory
          /\ memory'.size = memory.size
          /\ SameBytesOutside(memory, memory', 0, 0)]_vars

C12_Witness ==
    /\ phase = "cpu" /\ last.op = "Cpu::new"
    /\ sp = 255 /\ pc = 4096 /\ cycles_busy = 0
    /\ memory.size = 16384
    /\ 0 \in DOMAIN written /\ written[0] = 119 /\ load(memory, 0) = Ok(119)

-----------------------------------------------------------------------------
(* cpu.rs *)

(* let low = load(addr)?; let high = load(addr + 1)?; Ok((high << 8) | low) *)
load_little_endian_u16_big_endian(checked, cpu, addr) ==
    LET low_bytes  == load(cpu.memory, addr)
        next       == add_u16(checked, addr, 1)
        high_bytes == load(cpu.memory, next.val)
    IN  IF IsErr(low_bytes) THEN low_bytes
        ELSE IF IsPanic(next) THEN Panic
        ELSE IF IsErr(high_bytes) THEN high_bytes
        ELSE Ok(low_bytes.val * U8 + high_bytes.val)

load_little_endian_u16(checked, cpu, addr) ==
    LET low_bytes  == load(cpu.memory, addr)
        next       == add_u16(checked, addr, 1)
        high_bytes == load(cpu.memory, next.val)
    IN  IF IsErr(low_bytes) THEN low_bytes
        ELSE IF IsPanic(next) THEN Panic
        ELSE IF IsErr(high_bytes) THEN high_bytes
        ELSE Ok(high_bytes.val * U8 + low_bytes.val)

(* reset: sp is assigned before the vector is read; expect panics on an Err *)
reset_keeps_x(checked, cpu) ==
    LET vector == load_little_endian_u16(checked, cpu, ResetVector)
    IN  IF ~IsOk(vector)
        THEN [res |-> Panic, cpu |-> [cpu EXCEPT !.sp = StackTop]]
        ELSE [res |-> Ok(<<>>),
              cpu |-> [cpu EXCEPT !.sp = StackTop, !.pc = vector.val, !.a = 0,
                                  !.sr = 0, !.cycles_busy = 1]]

reset_counts_cycles(checked, cpu) ==
    LET vector == load_little_endian_u16(checked, cpu, ResetVector)
    IN  IF ~IsOk(vector)
        THEN [res |-> Panic, cpu |-> [cpu EXCEPT !.sp = StackTop]]
        ELSE [res |-> Ok(<<>>),
              cpu |-> [cpu EXCEPT !.sp = StackTop, !.pc = vector.val, !.a = 0,
                                  !.x = 0, !.sr = 0,
                                  !.cycles_busy = cpu.cycles_busy + 1]]

reset_clears_y(checked, cpu) ==
    LET vector == load_little_endian_u16(checked, cpu, ResetVector)
    IN  IF ~IsOk(vector)
        THEN [res |-> Panic, cpu |-> [cpu EXCEPT !.sp = StackTop]]
        ELSE [res |-> Ok(<<>>),
              cpu |-> [cpu EXCEPT !.sp = StackTop, !.pc = vector.val, !.a = 0,
                                  !.x = 0, !.y = 0, !.sr = 0, !.cycles_busy = 1]]

reset(checked, cpu) ==
    LET vector == load_little_endian_u16(checked, cpu, ResetVector)
    IN  IF ~IsOk(vector)
        THEN [res |-> Panic, cpu |-> [cpu EXCEPT !.sp = StackTop]]
        ELSE [res |-> Ok(<<>>),
              cpu |-> [cpu EXCEPT !.sp = StackTop, !.pc = vector.val, !.a = 0,
                                  !.x = 0, !.sr = 0, !.cycles_busy = 1]]

(* cpu/flags.rs: enum CpuFlags gives each flag its bit of sr; set_flag is   *)
(* self.sr |= 0x1 << (flag as u8)                                          *)
FlagBit_overflow_at_5(flag) ==
    CASE flag = "Carry" -> 0
      [] flag = "Zero" -> 1
      [] flag = "InterruptDisable" -> 2
      [] flag = "_Decimal" -> 3
      [] flag = "BreakFlag" -> 4
      [] flag = "_Unused" -> 5
      [] flag = "Overflow" -> 5
      [] flag = "Negative" -> 7

(* enum CpuFlags: `flag as u8` *)
FlagBit(flag) ==
    CASE flag = "Carry" -> 0
      [] flag = "Zero" -> 1
      [] flag = "InterruptDisable" -> 2
      [] flag = "_Decimal" -> 3
      [] flag = "BreakFlag" -> 4
      [] flag = "_Unused" -> 5
      [] flag = "Overflow" -> 6
      [] flag = "Negative" -> 7

set_flag(cpu, flag) ==
    IF (cpu.sr \div 2 ^ FlagBit(flag)) % 2 = 1
    THEN cpu
    ELSE [cpu EXCEPT !.sr = cpu.sr + 2 ^ FlagBit(flag)]

(* get_flag is self.sr & (0x1 << (flag as u8)) != 0 *)
get_flag(cpu, flag) == (cpu.sr \div 2 ^ FlagBit(flag)) % 2 = 1

(* clear_flag is self.sr &= !(0x1 << (flag as u8)) *)
clear_flag(cpu, flag) ==
    IF (cpu.sr \div 2 ^ FlagBit(flag)) % 2 = 1
    THEN [cpu EXCEPT !.sr = cpu.sr - 2 ^ FlagBit(flag)]
    ELSE cpu

(* One arm of fetch's match: instruction_size, the operation, the          *)
(* Addressing constructor with the index register it is given (if any),    *)
(* and cycle_count                                                         *)
Arm(size, operation, mode, index, cycles) ==
    [size |-> size, operation |-> operation, mode |-> mode, index |-> index,
     cycle_count |-> cycles]

Decode(opcode) ==
    CASE opcode =   0 -> Arm(1, "SoftwareInterrupt", "Implied", "none", 7)  \* 0x00 BRK
      [] opcode =  72 -> Arm(1, "PushAccumulator", "Implied", "none", 3)  \* 0x48 PHA
      [] opcode = 104 -> Arm(1, "PullAccumulator", "Implied", "none", 4)  \* 0x68 PLA
      [] opcode =  40 -> Arm(1, "PullStatusRegister", "Implied", "none", 4)  \* 0x28 PLP
      [] opcode =   9 -> Arm(2, "InclusiveOrWithAccumulator", "Immediate", "none", 2)  \* 0x09 ORA immediate
      [] opcode =   5 -> Arm(2, "InclusiveOrWithAccumulator", "Zeropage", "none", 3)  \* 0x05 ORA zeropage
      [] opcode =  21 -> Arm(2, "InclusiveOrWithAccumulator", "IndexedZeropage", "x", 4)  \* 0x15 ORA indexed zeropage
      [] opcode =  13 -> Arm(3, "InclusiveOrWithAccumulator", "Absolute", "none", 4)  \* 0x0d ORA absolute
      [] opcode =  29 -> Arm(3, "InclusiveOrWithAccumulator", "IndexedAbsolute", "x", 4)  \* 0x1d ORA absolute,X
      [] opcode =  25 -> Arm(3, "InclusiveOrWithAccumulator", "IndexedAbsolute", "y", 4)  \* 0x19 ORA absolute,Y
      [] opcode =   1 -> Arm(2, "InclusiveOrWithAccumulator", "PreindexedIndirect", "x", 6)  \* 0x01 ORA (indirect,X)
      [] opcode =  17 -> Arm(2, "InclusiveOrWithAccumulator", "PostindexedIndirect", "y", 5)  \* 0x11 ORA (indirect), Y
      [] opcode =  10 -> Arm(1, "ArithmeticShiftLeft", "Implied", "none", 2)  \* 0x0a ASL accumulator (implied)
      [] opcode =   6 -> Arm(2, "ArithmeticShiftLeft", "Zeropage", "none", 5)  \* 0x06 ASL zeropage
      [] opcode =  22 -> Arm(2, "ArithmeticShiftLeft", "IndexedZeropage", "x", 6)  \* 0x16 ASL zeropage,X
      [] opcode =  14 -> Arm(3, "ArithmeticShiftLeft", "Absolute", "none", 6)  \* 0x0e ASL absolute
      [] opcode =  30 -> Arm(3, "ArithmeticShiftLeft", "IndexedAbsolute", "x", 7)  \* 0x1e ASL absolute, X
      [] opcode =   8 -> Arm(1, "PushStatusRegister", "Implied", "none", 3)  \* 0x08 PHP implied
      [] opcode =  16 -> Arm(2, "BranchOnPlus", "RelativeAddress", "none", 2)  \* 0x10 BPL relative
      [] opcode =  24 -> Arm(1, "ClearCarry", "Implied", "none", 2)  \* 0x18 CLC implied
      [] opcode =  32 -> Arm(3, "JumpSubroutine", "Absolute", "none", 6)  \* 0x20 JSR absolute
      [] opcode =  41 -> Arm(2, "AndWithAccumulator", "Immediate", "none", 2)  \* 0x29 AND immediate
      [] opcode =  37 -> Arm(2, "AndWithAccumulator", "Zeropage", "none", 3)  \* 0x25 AND zeropage
      [] opcode =  53 -> Arm(2, "AndWithAccumulator", "IndexedZeropage", "x", 4)  \* 0x35 AND zeropage,X
      [] opcode =  45 -> Arm(3, "AndWithAccumulator", "Absolute", "none", 4)  \* 0x2d AND absolute
      [] opcode =  61 -> Arm(3, "AndWithAccumulator", "IndexedAbsolute", "x", 4)  \* 0x3d AND absolute,X
      [] opcode =  57 -> Arm(3, "AndWithAccumulator", "IndexedAbsolute", "y", 4)  \* 0x39 AND absolute,Y
      [] opcode =  33 -> Arm(2, "AndWithAccumulator", "PreindexedIndirect", "x", 6)  \* 0x21 AND (indirect,X)
      [] opcode =  49 -> Arm(2, "AndWithAccumulator", "PostindexedIndirect", "y", 5)  \* 0x31 AND (indirect),Y
      [] opcode =  36 -> Arm(2, "BitTest", "Zeropage", "none", 3)  \* 0x24 BIT zeropage
      [] opcode =  44 -> Arm(3, "BitTest", "Absolute", "none", 4)  \* 0x2c BIT absolute
      [] opcode =  42 -> Arm(1, "RotateLeft", "Implied", "none", 2)  \* 0x2a ROL accumulator
      [] opcode =  38 -> Arm(2, "RotateLeft", "Zeropage", "none", 5)  \* 0x26 ROL zeropage
      [] opcode =  54 -> Arm(2, "RotateLeft", "IndexedZeropage", "x", 6)  \* 0x36 ROL zeropage, X
      [] opcode =  46 -> Arm(3, "RotateLeft", "Absolute", "none", 6)  \* 0x2e ROL absolute
      [] opcode =  62 -> Arm(3, "RotateLeft", "IndexedAbsolute", "x", 7)  \* 0x3e ROL absolute, X
      [] opcode =  48 -> Arm(2, "BranchOnMinus", "RelativeAddress", "none", 2)  \* 0x30 BMI relative
      [] opcode =  56 -> Arm(1, "SetCarry", "Implied", "none", 2)  \* 0x38 SEC
      [] opcode =  64 -> Arm(1, "ReturnFromInterrupt", "Implied", "none", 6)  \* 0x40 RTI
      [] opcode =  73 -> Arm(2, "ExclusiveOrWithAccumulator", "Immediate", "none", 2)  \* 0x49 EOR immediate
      [] opcode =  69 -> Arm(2, "ExclusiveOrWithAccumulator", "Zeropage", "none", 3)  \* 0x45 EOR zeropage
      [] opcode =  85 -> Arm(2, "ExclusiveOrWithAccumulator", "IndexedZeropage", "x", 4)  \* 0x55 EOR zeropage, X
      [] opcode =  77 -> Arm(3, "ExclusiveOrWithAccumulator", "Absolute", "none", 4)  \* 0x4d EOR absolute
      [] opcode =  93 -> Arm(3, "ExclusiveOrWithAccumulator", "IndexedAbsolute", "x", 4)  \* 0x5d EOR absolute,X
      [] opcode =  89 -> Arm(3, "ExclusiveOrWithAccumulator", "IndexedAbsolute", "y", 4)  \* 0x59 EOR absolute,Y
      [] opcode =  65 -> Arm(2, "ExclusiveOrWithAccumulator", "PreindexedIndirect", "x", 6)  \* 0x41 EOR (indirect,X)
      [] opcode =  81 -> Arm(2, "ExclusiveOrWithAccumulator", "PostindexedIndirect", "y", 5)  \* 0x51 EOR (indirect),Y
      [] opcode =  74 -> Arm(1, "LogicalShiftRight", "Implied", "none", 2)  \* 0x4a LSR accumulator
      [] opcode =  70 -> Arm(2, "LogicalShiftRight", "Zeropage", "none", 5)  \* 0x46 LSR zeropage
      [] opcode =  86 -> Arm(2, "LogicalShiftRight", "IndexedZeropage", "x", 6)  \* 0x56 LSR zeropage,X
      [] opcode =  78 -> Arm(3, "LogicalShiftRight", "Absolute", "none", 6)  \* 0x4e LSR absolute
      [] opcode =  94 -> Arm(3, "LogicalShiftRight", "IndexedAbsolute", "x", 7)  \* 0x5e LSR absolute,X
      [] opcode =  76 -> Arm(3, "Jump", "Absolute", "none", 3)  \* 0x4c JMP absolute
      [] opcode = 108 -> Arm(3, "Jump", "Indirect", "none", 5)  \* 0x6c JMP indirect
      [] opcode =  80 -> Arm(2, "BranchOnOverflowClear", "RelativeAddress", "none", 2)  \* 0x50 BVC relative
      [] opcode =  88 -> Arm(1, "ClearInterruptDisable", "Implied", "none", 2)  \* 0x58 CLI
      [] opcode =  96 -> Arm(1, "ReturnFromSubroutine", "Implied", "none", 6)  \* 0x60 RTS
      [] opcode = 105 -> Arm(2, "AddWithCarry", "Immediate", "none", 2)  \* 0x69 ADC immediate
      [] opcode = 101 -> Arm(2, "AddWithCarry", "Zeropage", "none", 3)  \* 0x65 ADC zeropage
      [] opcode = 117 -> Arm(2, "AddWithCarry", "IndexedZeropage", "x", 4)  \* 0x75 ADC zeropage,X
      [] opcode = 109 -> Arm(3, "AddWithCarry", "Absolute", "none", 4)  \* 0x6d ADC absolute
      [] opcode = 125 -> Arm(3, "AddWithCarry", "IndexedAbsolute", "x", 4)  \* 0x7d ADC absolute,X
      [] opcode = 121 -> Arm(3, "AddWithCarry", "IndexedAbsolute", "y", 4)  \* 0x79 ADC absolute,Y
      [] opcode =  97 -> Arm(2, "AddWithCarry", "PreindexedIndirect", "x", 6)  \* 0x61 ADC (indirect,X)
      [] opcode = 113 -> Arm(2, "AddWithCarry", "PostindexedIndirect", "y", 5)  \* 0x71 ADC (indirect),Y
      [] opcode = 106 -> Arm(1, "RotateRight", "Implied", "none", 2)  \* 0x6a ROR accumulator
      [] opcode = 102 -> Arm(2, "RotateRight", "Zeropage", "none", 5)  \* 0x66 ROR zeropage
      [] opcode = 118 -> Arm(2, "RotateRight", "IndexedZeropage", "x", 6)  \* 0x76 ROR zeropage,X
      [] opcode = 110 -> Arm(3, "RotateRight", "Absolute", "none", 6)  \* 0x6e ROR absolute
      [] opcode = 126 -> Arm(3, "RotateRight", "IndexedAbsolute", "x", 7)  \* 0x7e ROR absolute,X
      [] opcode = 112 -> Arm(2, "BranchOnOverflowSet", "RelativeAddress", "none", 2)  \* 0x70 BVS relative
      [] opcode = 120 -> Arm(1, "SetInterruptDisable", "Implied", "none", 2)  \* 0x78 SEI
      [] opcode = 133 -> Arm(2, "StoreAccumulator", "Zeropage", "none", 3)  \* 0x85 STA zeropage
      [] opcode = 149 -> Arm(2, "StoreAccumulator", "IndexedZeropage", "x", 4)  \* 0x95 STA zeropage,X
      [] opcode = 141 -> Arm(3, "StoreAccumulator", "Absolute", "none", 4)  \* 0x8d STA absolute
      [] opcode = 157 -> Arm(3, "StoreAccumulator", "IndexedAbsolute", "x", 5)  \* 0x9d STA absolute,X
      [] opcode = 153 -> Arm(3, "StoreAccumulator", "IndexedAbsolute", "y", 5)  \* 0x99 STA absolute,Y
      [] opcode = 129 -> Arm(2, "StoreAccumulator", "PreindexedIndirect", "x", 6)  \* 0x81 STA (indirect,X)
      [] opcode = 145 -> Arm(2, "StoreAccumulator", "PostindexedIndirect", "y", 6)  \* 0x91 STA (indirect),Y
      [] opcode = 132 -> Arm(2, "StoreY", "Zeropage", "none", 3)  \* 0x84 STY zeropage
      [] opcode = 148 -> Arm(2, "StoreY", "IndexedZeropage", "x", 4)  \* 0x94 STY zeropage,X
      [] opcode = 140 -> Arm(3, "StoreY", "Absolute", "none", 4)  \* 0x8c STY absolute
      [] opcode = 134 -> Arm(2, "StoreX", "Zeropage", "none", 3)  \* 0x86 STX zeropage
      [] opcode = 150 -> Arm(2, "StoreX", "IndexedZeropage", "y", 4)  \* 0x96 STX zeropage,Y
      [] opcode = 142 -> Arm(3, "StoreX", "Absolute", "none", 4)  \* 0x8e STX absolute
      [] opcode = 136 -> Arm(1, "DecrementY", "Implied", "none", 2)  \* 0x88 DEY
      [] opcode = 138 -> Arm(1, "TransferXToAccumulator", "Implied", "none", 2)  \* 0x8a TXA
      [] opcode = 144 -> Arm(2, "BranchOnCarryClear", "RelativeAddress", "none", 2)  \* 0x90 BCC relative
      [] opcode = 152 -> Arm(1, "TransferYToAccumulator", "Implied", "none", 2)  \* 0x98 TYA
      [] opcode = 154 -> Arm(1, "TransferXToStackPointer", "Implied", "none", 2)  \* 0x9a TXS
      [] opcode = 160 -> Arm(2, "LoadY", "Immediate", "none", 2)  \* 0xa0 LDY immediate
      [] opcode = 164 -> Arm(2, "LoadY", "Zeropage", "none", 3)  \* 0xa4 LDY zeropage
      [] opcode = 180 -> Arm(2, "LoadY", "IndexedZeropage", "x", 4)  \* 0xb4 LDY zeropage,X
      [] opcode = 172 -> Arm(3, "LoadY", "Absolute", "none", 4)  \* 0xac LDY absolute
      [] opcode = 188 -> Arm(3, "LoadY", "IndexedAbsolute", "x", 4)  \* 0xbc LDY absolute,X
      [] opcode = 162 -> Arm(2, "LoadX", "Immediate", "none", 2)  \* 0xa2 LDX immediate
      [] opcode = 166 -> Arm(2, "LoadX", "Zeropage", "none", 3)  \* 0xa6 LDX zeropage
      [] opcode = 182 -> Arm(2, "LoadX", "IndexedZeropage", "y", 4)  \* 0xb6 LDX zeropage,Y
      [] opcode = 174 -> Arm(3, "LoadX", "Absolute", "none", 4)  \* 0xae LDX absolute
      [] opcode = 190 -> Arm(3, "LoadX", "IndexedAbsolute", "y", 4)  \* 0xbe LDX absolute,Y
      [] opcode = 169 -> Arm(2, "LoadAccumulator", "Immediate", "none", 2)  \* 0xa9 LDA immediate
      [] opcode = 165 -> Arm(2, "LoadAccumulator", "Zeropage", "none", 3)  \* 0xa5 LDA zeropage
      [] opcode = 181 -> Arm(2, "LoadAccumulator", "IndexedZeropage", "x", 4)  \* 0xb5 LDA zeropage,X
      [] opcode = 173 -> Arm(3, "LoadAccumulator", "Absolute", "none", 4)  \* 0xad LDA absolute
      [] opcode = 189 -> Arm(3, "LoadAccumulator", "IndexedAbsolute", "x", 4)  \* 0xbd LDA absolute,X
      [] opcode = 185 -> Arm(3, "LoadAccumulator", "IndexedAbsolute", "y", 4)  \* 0xb9 LDA absolute,Y
      [] opcode = 161 -> Arm(2, "LoadAccumulator", "PreindexedIndirect", "x", 6)  \* 0xa1 LDA (indirect,X)
      [] opcode = 177 -> Arm(2, "LoadAccumulator", "PostindexedIndirect", "y", 5)  \* 0xb1 LDA (indirect), Y
      [] opcode = 168 -> Arm(1, "TransferAccumulatorToY", "Implied", "none", 2)  \* 0xa8 TAY
      [] opcode = 170 -> Arm(1, "TransferAccumulatorToX", "Implied", "none", 2)  \* 0xaa TAX
      [] opcode = 176 -> Arm(2, "BranchOnCarrySet", "RelativeAddress", "none", 2)  \* 0xb0 BCS
      [] opcode = 184 -> Arm(1, "ClearOverflow", "Implied", "none", 2)  \* 0xb8 CLV
      [] opcode = 186 -> Arm(1, "TransferStackPointerToX", "Implied", "none", 2)  \* 0xba TSX
      [] opcode = 192 -> Arm(2, "CompareWithY", "Immediate", "none", 2)  \* 0xc0 CPY immediate
      [] opcode = 196 -> Arm(2, "CompareWithY", "Zeropage", "none", 3)  \* 0xc4 CPY zeropage
      [] opcode = 204 -> Arm(3, "CompareWithY", "Absolute", "none", 4)  \* 0xcc CPY absolute
      [] opcode = 201 -> Arm(2, "CompareWithAccumulator", "Immediate", "none", 2)  \* 0xc9 CMP immediate
      [] opcode = 197 -> Arm(2, "CompareWithAccumulator", "Zeropage", "none", 3)  \* 0xc5 CMP zeropage
      [] opcode = 213 -> Arm(2, "CompareWithAccumulator", "IndexedZeropage", "x", 4)  \* 0xd5 CMP zeropage,X
      [] opcode = 205 -> Arm(3, "CompareWithAccumulator", "Absolute", "none", 4)  \* 0xcd CMP absolute
      [] opcode = 221 -> Arm(3, "CompareWithAccumulator", "IndexedAbsolute", "x", 4)  \* 0xdd CMP absolute,X
      [] opcode = 217 -> Arm(3, "CompareWithAccumulator", "IndexedAbsolute", "y", 4)  \* 0xd9 CMP absolute, Y
      [] opcode = 193 -> Arm(2, "CompareWithAccumulator", "PreindexedIndirect", "x", 6)  \* 0xc1 CMP (indirect,X)
      [] opcode = 209 -> Arm(2, "CompareWithAccumulator", "PostindexedIndirect", "y", 5)  \* 0xd1 CMP (indirect),Y
      [] opcode = 198 -> Arm(2, "DecrementMemory", "Zeropage", "none", 5)  \* 0xc6 DEC zeropage
      [] opcode = 214 -> Arm(2, "DecrementMemory", "IndexedZeropage", "x", 6)  \* 0xd6 DEC zeropage,X
      [] opcode = 206 -> Arm(3, "DecrementMemory", "Absolute", "none", 6)  \* 0xce DEC absolute
      [] opcode = 222 -> Arm(3, "DecrementMemory", "IndexedAbsolute", "x", 7)  \* 0xde DEC absolute,X
      [] opcode = 200 -> Arm(1, "IncrementY", "Implied", "none", 2)  \* 0xc8 INY
      [] opcode = 202 -> Arm(1, "DecrementX", "Implied", "none", 2)  \* 0xca DEX
      [] opcode = 208 -> Arm(2, "BranchOnNotEqual", "RelativeAddress", "none", 2)  \* 0xd0 BNE
      [] opcode = 216 -> Arm(1, "ClearDecimal", "Implied", "none", 2)  \* 0xd8 CLD
      [] opcode = 224 -> Arm(2, "CompareWithX", "Immediate", "none", 2)  \* 0xe0 CPX immediate
      [] opcode = 228 -> Arm(2, "CompareWithX", "Zeropage", "none", 3)  \* 0xe4 CPX zeropage
      [] opcode = 236 -> Arm(3, "CompareWithX", "Absolute", "none", 4)  \* 0xec CPX absolute
      [] opcode = 233 -> Arm(2, "SubtractWithCarry", "Immediate", "none", 2)  \* 0xe9 SBC immediate
      [] opcode = 229 -> Arm(2, "SubtractWithCarry", "Zeropage", "none", 3)  \* 0xe5 SBC zeropage
      [] opcode = 245 -> Arm(2, "SubtractWithCarry", "IndexedZeropage", "x", 4)  \* 0xf5 SBC zeropage,X
      [] opcode = 237 -> Arm(3, "SubtractWithCarry", "Absolute", "none", 4)  \* 0xed SBC absolute
      [] opcode = 253 -> Arm(3, "SubtractWithCarry", "IndexedAbsolute", "x", 4)  \* 0xfd SBC absolute,X
      [] opcode = 249 -> Arm(3, "SubtractWithCarry", "IndexedAbsolute", "y", 4)  \* 0xf9 SBC absolute,Y
      [] opcode = 225 -> Arm(2, "SubtractWithCarry", "PreindexedIndirect", "x", 6)  \* 0xe1 SBC (indirect,X)
      [] opcode = 241 -> Arm(2, "SubtractWithCarry", "PostindexedIndirect", "y", 5)  \* 0xf1 SBC (indirect),Y
      [] opcode = 230 -> Arm(2, "IncrementMemory", "Zeropage", "none", 5)  \* 0xe6 INC zeropage
      [] opcode = 246 -> Arm(2, "IncrementMemory", "IndexedZeropage", "x", 6)  \* 0xf6 INC zeropage,X
      [] opcode = 238 -> Arm(3, "IncrementMemory", "Absolute", "none", 6)  \* 0xee INC absolute
      [] opcode = 254 -> Arm(3, "IncrementMemory", "IndexedAbsolute", "x", 7)  \* 0xfe INC absolute,X
      [] opcode = 232 -> Arm(1, "IncrementX", "Implied", "none", 2)  \* 0xe8 INX
      [] opcode = 240 -> Arm(2, "BranchOnEqual", "RelativeAddress", "none", 2)  \* 0xf0 BEQ relative
      [] opcode = 248 -> Arm(1, "SetDecimal", "Implied", "none", 2)  \* 0xf8 SED
      [] OTHER -> Arm(1, "NoOperation", "Implied", "none", 2)  \* 0xea | _

Addressing(mode, args) == [mode |-> mode, args |-> args]

Instruction(operation, addressing, cycles) ==
    [operation |-> operation, addressing |-> addressing, cycle_count |-> cycles]

(* self.x or self.y, as the arm names it *)
IndexRegister_always_x(cpu, index) == cpu.x

IndexRegister(cpu, index) == IF index = "x" THEN cpu.x ELSE cpu.y

(* the operand address of every arm: self.pc + 1 *)
OperandAddress(checked, pcv) == add_u16(checked, pcv, 1)

(* The Addressing value an arm builds.  Implied reads nothing; the modes   *)
(* of one operand byte read self.memory.load(self.pc + 1)?; Absolute,      *)
(* IndexedAbsolute and Indirect read                                       *)
(* self.load_little_endian_u16(self.pc + 1)?                               *)
BuildAddressing(checked, cpu, arm) ==
    LET at   == OperandAddress(checked, cpu.pc)
        byte == load(cpu.memory, at.val)
        word == load_little_endian_u16(checked, cpu, at.val)
    IN  CASE arm.mode = "Implied" -> Ok(Addressing("Implied", <<>>))
          [] arm.mode \in {"Immediate", "Zeropage", "RelativeAddress"} ->
                IF IsPanic(at) THEN Panic
                ELSE IF IsErr(byte) THEN byte
                ELSE Ok(Addressing(arm.mode, <<byte.val>>))
          [] arm.mode \in {"IndexedZeropage", "PreindexedIndirect", "PostindexedIndirect"} ->
                IF IsPanic(at) THEN Panic
                ELSE IF IsErr(byte) THEN byte
                ELSE Ok(Addressing(arm.mode, <<byte.val, IndexRegister(cpu, arm.index)>>))
          [] arm.mode \in {"Absolute", "Indirect"} ->
                IF IsPanic(at) THEN Panic
                ELSE IF ~IsOk(word) THEN word
                ELSE Ok(Addressing(arm.mode, <<word.val>>))
          [] arm.mode = "IndexedAbsolute" ->
                IF IsPanic(at) THEN Panic
                ELSE IF ~IsOk(word) THEN word
                ELSE Ok(Addressing(arm.mode, <<word.val, IndexRegister(cpu, arm.index)>>))

(* self.pc += instruction_size *)
AdvancePc_by_one(checked, pcv, instruction_size) == add_u16(checked, pcv, 1)

AdvancePc_no_wrap(checked, pcv, instruction_size) == Ok(pcv + instruction_size)

AdvancePc(checked, pcv, instruction_size) == add_u16(checked, pcv, instruction_size)

fetch_clobbers_a(checked, cpu) ==
    LET opcode     == load(cpu.memory, cpu.pc)
        arm        == Decode(opcode.val)
        addressing == BuildAddressing(checked, cpu, arm)
        next_pc    == AdvancePc(checked, cpu.pc, arm.size)
    IN  IF IsErr(opcode) THEN [res |-> opcode, cpu |-> cpu]
        ELSE IF ~IsOk(addressing) THEN [res |-> addressing, cpu |-> cpu]
        ELSE IF IsPanic(next_pc) THEN [res |-> Panic, cpu |-> cpu]
        ELSE [res |-> Ok(Instruction(arm.operation, addressing.val, arm.cycle_count)),
              cpu |-> [cpu EXCEPT !.pc = next_pc.val, !.a = opcode.val]]

fetch_advances_on_error(checked, cpu) ==
    LET opcode     == load(cpu.memory, cpu.pc)
        arm        == Decode(opcode.val)
        addressing == BuildAddressing(checked, cpu, arm)
        next_pc    == AdvancePc(checked, cpu.pc, arm.size)
    IN  IF IsErr(opcode) THEN [res |-> opcode, cpu |-> cpu]
        ELSE IF ~IsOk(addressing)
             THEN [res |-> addressing, cpu |-> [cpu EXCEPT !.pc = (cpu.pc + 1) % U16]]
        ELSE IF IsPanic(next_pc) THEN [res |-> Panic, cpu |-> cpu]
        ELSE [res |-> Ok(Instruction(arm.operation, addressing.val, arm.cycle_count)),
              cpu |-> [cpu EXCEPT !.pc = next_pc.val]]

(* fetch returns its Result (res) and the Cpu it leaves (cpu) *)
fetch(checked, cpu) ==
    LET opcode     == load(cpu.memory, cpu.pc)
        arm        == Decode(opcode.val)
        addressing == BuildAddressing(checked, cpu, arm)
        next_pc    == AdvancePc(checked, cpu.pc, arm.size)
    IN  IF IsErr(opcode) THEN [res |-> opcode, cpu |-> cpu]
        ELSE IF ~IsOk(addressing) THEN [res |-> addressing, cpu |-> cpu]
        ELSE IF IsPanic(next_pc) THEN [res |-> Panic, cpu |-> cpu]
        ELSE [res |-> Ok(Instruction(arm.operation, addressing.val, arm.cycle_count)),
              cpu |-> [cpu EXCEPT !.pc = next_pc.val]]

-----------------------------------------------------------------------------
(* cpu.rs: get_effective_address; cpu/errors.rs: enum CpuError *)

(* the unit variant is a record with one field, like the wrapping variant *)
InvalidAddressModeDerefenced ==
    [tag |-> "Err", val |-> [InvalidAddressModeDerefenced |-> <<>>]]

MemoryBoundsError(e) == [tag |-> "Err", val |-> [MemoryBoundsError |-> e]]

(* (0x0000 | low_nibble as u16) + offset as u16: two bytes added as u16 *)
ZeropageSum_wrapped(low_nibble, offset) == (low_nibble + offset) % U8

ZeropageSum(low_nibble, offset) == low_nibble + offset

(* !offset as u16 + 1: the complement is taken on the u8, then widened *)
RelativeDelta_no_plus_one(offset) == U8 - 1 - offset

RelativeDelta(offset) == (U8 - 1 - offset) + 1

get_effective_address(checked, cpu, addressing) ==
    LET mode == addressing.mode
        args == addressing.args
    IN  CASE mode = "Absolute" -> Ok(args[1])
          [] mode = "Zeropage" -> Ok(args[1])
          [] mode = "IndexedAbsolute" -> add_u16(checked, args[1], args[2])
          [] mode = "IndexedZeropage" -> Ok(ZeropageSum(args[1], args[2]))
          [] mode = "PreindexedIndirect" -> Ok(ZeropageSum(args[1], args[2]))
          [] mode = "PostindexedIndirect" ->
                LET base_addr == load_little_endian_u16(checked, cpu, args[1])
                IN  IF ~IsOk(base_addr) THEN Panic
                    ELSE add_u16(checked, base_addr.val, args[2])
          [] mode = "Indirect" ->
                LET word == load_little_endian_u16(checked, cpu, args[1])
                IN  IF IsErr(word) THEN MemoryBoundsError(word.val) ELSE word
          [] mode = "RelativeAddress" ->
                IF args[1] >= 128
                THEN sub_u16(checked, cpu.pc, RelativeDelta(args[1]))
                ELSE add_u16(checked, cpu.pc, args[1])
          [] mode \in {"Immediate", "Implied"} -> InvalidAddressModeDerefenced

(* cpu.rs: get_operand.  `?` hands on the CpuError of                       *)
(* get_effective_address; map_err wraps the OutOfRangeError of load        *)
get_operand_immediate_from_memory(checked, cpu, addressing) ==
    LET mode == addressing.mode
        args == addressing.args
    IN  CASE mode \in {"Absolute", "Zeropage", "IndexedAbsolute", "IndexedZeropage",
                       "PreindexedIndirect", "PostindexedIndirect", "RelativeAddress"} ->
                LET effective_addr == get_effective_address(checked, cpu, addressing)
                    byte           == load(cpu.memory, effective_addr.val)
                IN  IF ~IsOk(effective_addr) THEN effective_addr
                    ELSE IF IsErr(byte) THEN MemoryBoundsError(byte.val)
                    ELSE byte
          [] mode = "Immediate" -> load(cpu.memory, args[1])
          [] mode \in {"Implied", "Indirect"} -> InvalidAddressModeDerefenced

get_operand_derefs_indirect(checked, cpu, addressing) ==
    LET mode == addressing.mode
        args == addressing.args
    IN  CASE mode = "Immediate" -> Ok(args[1])
          [] mode \in {"Absolute", "Zeropage", "IndexedAbsolute", "IndexedZeropage",
                       "PreindexedIndirect", "PostindexedIndirect", "RelativeAddress",
                       "Indirect"} ->
                LET effective_addr == get_effective_address(checked, cpu, addressing)
                    byte           == load(cpu.memory, effective_addr.val)
                IN  IF ~IsOk(effective_addr) THEN effective_addr
                    ELSE IF IsErr(byte) THEN MemoryBoundsError(byte.val)
                    ELSE byte
          [] mode = "Implied" -> InvalidAddressModeDerefenced

get_operand(checked, cpu, addressing) ==
    LET mode == addressing.mode
        args == addressing.args
    IN  CASE mode = "Immediate" -> Ok(args[1])
          [] mode \in {"Absolute", "Zeropage", "IndexedAbsolute", "IndexedZeropage",
                       "PreindexedIndirect", "PostindexedIndirect", "RelativeAddress"} ->
                LET effective_addr == get_effective_address(checked, cpu, addressing)
                    byte           == load(cpu.memory, effective_addr.val)
                IN  IF ~IsOk(effective_addr) THEN effective_addr
                    ELSE IF IsErr(byte) THEN MemoryBoundsError(byte.val)
                    ELSE byte
          [] mode \in {"Implied", "Indirect"} -> InvalidAddressModeDerefenced

-----------------------------------------------------------------------------
(* Inputs of the Cpu specification: the memory images a Cpu is built over. *)
(* An image is what a test sets up before Cpu::new: a memory of some size, *)
(* [0xab, 0xcd] at 0x0000 (loads_little_endian_word), an instruction       *)
(* [opcode, b1, b2] at an entry address and the reset vector pointing at   *)
(* it (resets_properly).  The writes are stores whose Err is dropped.      *)

Scenarios ==
    {[size |-> 16 * 1024,      entry |-> CartridgeStart],
     [size |-> MaxAddress + 1, entry |-> CartridgeStart],
     [size |-> MaxAddress + 1, entry |-> MaxAddress - 1],
     [size |-> MaxAddress + 1, entry |-> MaxAddress],
     [size |-> MaxAddress,     entry |-> MaxAddress - 1],
     [size |-> MaxAddress - 1, entry |-> MaxAddress - 1]}

Opcodes == 0 .. U8 - 1

OperandPairs == {<<10, 162>>, <<254, 1>>}

RegPairs == {<<8, 9>>}

SetFlags == {"Negative"}

RECURSIVE StoreAll(_, _)
StoreAll(m, writes) ==
    IF writes = <<>> THEN m
    ELSE StoreAll(store(m, Head(writes)[1], Head(writes)[2]).mem, Tail(writes))

Image(sc, opcode, operands) ==
    StoreAll(Memory_new(sc.size).val,
             << <<0, 171>>, <<1, 205>>,
                <<ResetVector, sc.entry % U8>>, <<ResetVector + 1, sc.entry \div U8>> >>
             \o [i \in 1 .. Len(SelectSeq(<<0, 1, 2>>, LAMBDA k : sc.entry + k <= MaxAddress)) |->
                    <<sc.entry + i - 1, (<<opcode>> \o operands)[i]>>])

-----------------------------------------------------------------------------
(* Spec: a Cpu from Cpu::new on *)

TheCpu ==
    [sp |-> sp, pc |-> pc, a |-> a, x |-> x, y |-> y, sr |-> sr, memory |-> memory,
     cycles_busy |-> cycles_busy]

BecomesCpu(cpu) ==
    /\ sp' = cpu.sp /\ pc' = cpu.pc /\ a' = cpu.a /\ x' = cpu.x /\ y' = cpu.y
    /\ sr' = cpu.sr /\ memory' = cpu.memory /\ cycles_busy' = cpu.cycles_busy

Init ==
    \E checked \in BOOLEAN, sc \in Scenarios, opcode \in Opcodes, operands \in OperandPairs :
        \E cpu \in {Cpu_new(Image(sc, opcode, operands))} :
            /\ phase = "cpu"
            /\ overflow_checks = checked
            /\ sp = cpu.sp /\ pc = cpu.pc /\ a = cpu.a /\ x = cpu.x /\ y = cpu.y
            /\ sr = cpu.sr /\ memory = cpu.memory /\ cycles_busy = cpu.cycles_busy
            /\ last = Call("Cpu::new", <<>>, Ok(<<>>))
            /\ calls = 0
            /\ pc0 = cpu.pc /\ consumed = <<>>
            /\ written = NoWrites

(* cpu.x = vx; cpu.y = vy; (the tests assign the fields directly) *)
SetXY(vx, vy) ==
    /\ phase = "cpu"
    /\ x' = vx /\ y' = vy
    /\ last' = Call("set_xy", <<vx, vy>>, Ok(<<>>))
    /\ UNCHANGED <<phase, overflow_checks, memory, pc, a, sp, sr, cycles_busy,
                   calls, pc0, consumed, written>>

(* cpu.set_flag(flag) *)
CpuSetFlag(flag) ==
    /\ phase = "cpu"
    /\ BecomesCpu(set_flag(TheCpu, flag))
    /\ last' = Call("set_flag", <<flag, sr>>, Ok(<<>>))
    /\ UNCHANGED <<phase, overflow_checks, calls, pc0, consumed, written>>

(* cpu.reset() *)
CpuReset ==
    /\ phase = "cpu"
    /\ calls < MaxCpuCalls
    /\ calls' = calls + 1
    /\ \E r \in {reset(overflow_checks, TheCpu)} :
           /\ BecomesCpu(r.cpu)
           /\ last' = Call("reset", <<pc, x, y, sr>>, r.res)
           /\ phase' = IF IsPanic(r.res) THEN "panicked" ELSE phase
           /\ IF IsOk(r.res) THEN pc0' = r.cpu.pc /\ consumed' = <<>>
              ELSE UNCHANGED <<pc0, consumed>>
    /\ UNCHANGED <<overflow_checks, written>>

(* cpu.fetch() *)
CpuFetch ==
    /\ phase = "cpu"
    /\ calls < MaxCpuCalls
    /\ calls' = calls + 1
    /\ \E r \in {fetch(overflow_checks, TheCpu)} :
           /\ BecomesCpu(r.cpu)
           /\ last' = Call("fetch", <<pc, x, y>>, r.res)
           /\ phase' = IF IsPanic(r.res) THEN "panicked" ELSE phase
           /\ consumed' = IF IsOk(r.res) THEN Append(consumed, r.res.val) ELSE consumed
    /\ UNCHANGED <<overflow_checks, pc0, written>>

Next ==
    \/ \E p \in RegPairs : SetXY(p[1], p[2])
    \/ \E flag \in SetFlags : CpuSetFlag(flag)
    \/ CpuReset
    \/ CpuFetch

Spec == Init /\ [][Next]_vars

-----------------------------------------------------------------------------
(* The reference 6502 instruction set: the 151 documented opcode bytes and, *)
(* per byte, the operation, addressing mode, byte length and base cycles   *)
DocumentedOpcodes ==
    {0, 1, 5, 6, 8, 9, 10, 13, 14, 16, 17, 21, 22, 24, 25, 29, 30, 32, 33,
     36, 37, 38, 40, 41, 42, 44, 45, 46, 48, 49, 53, 54, 56, 57, 61, 62,
     64, 65, 69, 70, 72, 73, 74, 76, 77, 78, 80, 81, 85, 86, 88, 89, 93,
     94, 96, 97, 101, 102, 104, 105, 106, 108, 109, 110, 112, 113, 117,
     118, 120, 121, 125, 126, 129, 132, 133, 134, 136, 138, 140, 141, 142,
     144, 145, 148, 149, 150, 152, 153, 154, 157, 160, 161, 162, 164, 165,
     166, 168, 169, 170, 172, 173, 174, 176, 177, 180, 181, 182, 184, 185,
     186, 188, 189, 190, 192, 193, 196, 197, 198, 200, 201, 202, 204, 205,
     206, 208, 209, 213, 214, 216, 217, 221, 222, 224, 225, 228, 229, 230,
     232, 233, 234, 236, 237, 238, 240, 241, 245, 246, 248, 249, 253, 254}

(* the documented opcodes indexed by Y: zeropage,Y  absolute,Y  (indirect),Y *)
YIndexedOpcodes ==
    {17, 25, 49, 57, 81, 89, 113, 121, 145, 150, 153, 177, 182, 185, 190,
     209, 217, 241, 249}

Ref(operation, mode, length, cycles) ==
    [operation |-> operation, mode |-> mode, length |-> length, cycle_count |-> cycles]

Reference(opcode) ==
    CASE opcode =   0 -> Ref("SoftwareInterrupt", "Implied", 1, 7)
      [] opcode =   1 -> Ref("InclusiveOrWithAccumulator", "PreindexedIndirect", 2, 6)
      [] opcode =   5 -> Ref("InclusiveOrWithAccumulator", "Zeropage", 2, 3)
      [] opcode =   6 -> Ref("ArithmeticShiftLeft", "Zeropage", 2, 5)
      [] opcode =   8 -> Ref("PushStatusRegister", "Implied", 1, 3)
      [] opcode =   9 -> Ref("InclusiveOrWithAccumulator", "Immediate", 2, 2)
      [] opcode =  10 -> Ref("ArithmeticShiftLeft", "Implied", 1, 2)
      [] opcode =  13 -> Ref("InclusiveOrWithAccumulator", "Absolute", 3, 4)
      [] opcode =  14 -> Ref("ArithmeticShiftLeft", "Absolute", 3, 6)
      [] opcode =  16 -> Ref("BranchOnPlus", "RelativeAddress", 2, 2)
      [] opcode =  17 -> Ref("InclusiveOrWithAccumulator", "PostindexedIndirect", 2, 5)
      [] opcode =  21 -> Ref("InclusiveOrWithAccumulator", "IndexedZeropage", 2, 4)
      [] opcode =  22 -> Ref("ArithmeticShiftLeft", "IndexedZeropage", 2, 6)
      [] opcode =  24 -> Ref("ClearCarry", "Implied", 1, 2)
      [] opcode =  25 -> Ref("InclusiveOrWithAccumulator", "IndexedAbsolute", 3, 4)
      [] opcode =  29 -> Ref("InclusiveOrWithAccumulator", "IndexedAbsolute", 3, 4)
      [] opcode =  30 -> Ref("ArithmeticShiftLeft", "IndexedAbsolute", 3, 7)
      [] opcode =  32 -> Ref("JumpSubroutine", "Absolute", 3, 6)
      [] opcode =  33 -> Ref("AndWithAccumulator", "PreindexedIndirect", 2, 6)
      [] opcode =  36 -> Ref("BitTest", "Zeropage", 2, 3)
      [] opcode =  37 -> Ref("AndWithAccumulator", "Zeropage", 2, 3)
      [] opcode =  38 -> Ref("RotateLeft", "Zeropage", 2, 5)
      [] opcode =  40 -> Ref("PullStatusRegister", "Implied", 1, 4)
      [] opcode =  41 -> Ref("AndWithAccumulator", "Immediate", 2, 2)
      [] opcode =  42 -> Ref("RotateLeft", "Implied", 1, 2)
      [] opcode =  44 -> Ref("BitTest", "Absolute", 3, 4)
      [] opcode =  45 -> Ref("AndWithAccumulator", "Absolute", 3, 4)
      [] opcode =  46 -> Ref("RotateLeft", "Absolute", 3, 6)
      [] opcode =  48 -> Ref("BranchOnMinus", "RelativeAddress", 2, 2)
      [] opcode =  49 -> Ref("AndWithAccumulator", "PostindexedIndirect", 2, 5)
      [] opcode =  53 -> Ref("AndWithAccumulator", "IndexedZeropage", 2, 4)
      [] opcode =  54 -> Ref("RotateLeft", "IndexedZeropage", 2, 6)
      [] opcode =  56 -> Ref("SetCarry", "Implied", 1, 2)
      [] opcode =  57 -> Ref("AndWithAccumulator", "IndexedAbsolute", 3, 4)
      [] opcode =  61 -> Ref("AndWithAccumulator", "IndexedAbsolute", 3, 4)
      [] opcode =  62 -> Ref("RotateLeft", "IndexedAbsolute", 3, 7)
      [] opcode =  64 -> Ref("ReturnFromInterrupt", "Implied", 1, 6)
      [] opcode =  65 -> Ref("ExclusiveOrWithAccumulator", "PreindexedIndirect", 2, 6)
      [] opcode =  69 -> Ref("ExclusiveOrWithAccumulator", "Zeropage", 2, 3)
      [] opcode =  70 -> Ref("LogicalShiftRight", "Zeropage", 2, 5)
      [] opcode =  72 -> Ref("PushAccumulator", "Implied", 1, 3)
      [] opcode =  73 -> Ref("ExclusiveOrWithAccumulator", "Immediate", 2, 2)
      [] opcode =  74 -> Ref("LogicalShiftRight", "Implied", 1, 2)
      [] opcode =  76 -> Ref("Jump", "Absolute", 3, 3)
      [] opcode =  77 -> Ref("ExclusiveOrWithAccumulator", "Absolute", 3, 4)
      [] opcode =  78 -> Ref("LogicalShiftRight", "Absolute", 3, 6)
      [] opcode =  80 -> Ref("BranchOnOverflowClear", "RelativeAddress", 2, 2)
      [] opcode =  81 -> Ref("ExclusiveOrWithAccumulator", "PostindexedIndirect", 2, 5)
      [] opcode =  85 -> Ref("ExclusiveOrWithAccumulator", "IndexedZeropage", 2, 4)
      [] opcode =  86 -> Ref("LogicalShiftRight", "IndexedZeropage", 2, 6)
      [] opcode =  88 -> Ref("ClearInterruptDisable", "Implied", 1, 2)
      [] opcode =  89 -> Ref("ExclusiveOrWithAccumulator", "IndexedAbsolute", 3, 4)
      [] opcode =  93 -> Ref("ExclusiveOrWithAccumulator", "IndexedAbsolute", 3, 4)
      [] opcode =  94 -> Ref("LogicalShiftRight", "IndexedAbsolute", 3, 7)
      [] opcode =  96 -> Ref("ReturnFromSubroutine", "Implied", 1, 6)
      [] opcode =  97 -> Ref("AddWithCarry", "PreindexedIndirect", 2, 6)
      [] opcode = 101 -> Ref("AddWithCarry", "Zeropage", 2, 3)
      [] opcode = 102 -> Ref("RotateRight", "Zeropage", 2, 5)
      [] opcode = 104 -> Ref("PullAccumulator", "Implied", 1, 4)
      [] opcode = 105 -> Ref("AddWithCarry", "Immediate", 2, 2)
      [] opcode = 106 -> Ref("RotateRight", "Implied", 1, 2)
      [] opcode = 108 -> Ref("Jump", "Indirect", 3, 5)
      [] opcode = 109 -> Ref("AddWithCarry", "Absolute", 3, 4)
      [] opcode = 110 -> Ref("RotateRight", "Absolute", 3, 6)
      [] opcode = 112 -> Ref("BranchOnOverflowSet", "RelativeAddress", 2, 2)
      [] opcode = 113 -> Ref("AddWithCarry", "PostindexedIndirect", 2, 5)
      [] opcode = 117 -> Ref("AddWithCarry", "IndexedZeropage", 2, 4)
      [] opcode = 118 -> Ref("RotateRight", "IndexedZeropage", 2, 6)
      [] opcode = 120 -> Ref("SetInterruptDisable", "Implied", 1, 2)
      [] opcode = 121 -> Ref("AddWithCarry", "IndexedAbsolute", 3, 4)
      [] opcode = 125 -> Ref("AddWithCarry", "IndexedAbsolute", 3, 4)
      [] opcode = 126 -> Ref("RotateRight", "IndexedAbsolute", 3, 7)
      [] opcode = 129 -> Ref("StoreAccumulator", "PreindexedIndirect", 2, 6)
      [] opcode = 132 -> Ref("StoreY", "Zeropage", 2, 3)
      [] opcode = 133 -> Ref("StoreAccumulator", "Zeropage", 2, 3)
      [] opcode = 134 -> Ref("StoreX", "Zeropage", 2, 3)
      [] opcode = 136 -> Ref("DecrementY", "Implied", 1, 2)
      [] opcode = 138 -> Ref("TransferXToAccumulator", "Implied", 1, 2)
      [] opcode = 140 -> Ref("StoreY", "Absolute", 3, 4)
      [] opcode = 141 -> Ref("StoreAccumulator", "Absolute", 3, 4)
      [] opcode = 142 -> Ref("StoreX", "Absolute", 3, 4)
      [] opcode = 144 -> Ref("BranchOnCarryClear", "RelativeAddress", 2, 2)
      [] opcode = 145 -> Ref("StoreAccumulator", "PostindexedIndirect", 2, 6)
      [] opcode = 148 -> Ref("StoreY", "IndexedZeropage", 2, 4)
      [] opcode = 149 -> Ref("StoreAccumulator", "IndexedZeropage", 2, 4)
      [] opcode = 150 -> Ref("StoreX", "IndexedZeropage", 2, 4)
      [] opcode = 152 -> Ref("TransferYToAccumulator", "Implied", 1, 2)
      [] opcode = 153 -> Ref("StoreAccumulator", "IndexedAbsolute", 3, 5)
      [] opcode = 154 -> Ref("TransferXToStackPointer", "Implied", 1, 2)
      [] opcode = 157 -> Ref("StoreAccumulator", "IndexedAbsolute", 3, 5)
      [] opcode = 160 -> Ref("LoadY", "Immediate", 2, 2)
      [] opcode = 161 -> Ref("LoadAccumulator", "PreindexedIndirect", 2, 6)
      [] opcode = 162 -> Ref("LoadX", "Immediate", 2, 2)
      [] opcode = 164 -> Ref("LoadY", "Zeropage", 2, 3)
      [] opcode = 165 -> Ref("LoadAccumulator", "Zeropage", 2, 3)
      [] opcode = 166 -> Ref("LoadX", "Zeropage", 2, 3)
      [] opcode = 168 -> Ref("TransferAccumulatorToY", "Implied", 1, 2)
      [] opcode = 169 -> Ref("LoadAccumulator", "Immediate", 2, 2)
      [] opcode = 170 -> Ref("TransferAccumulatorToX", "Implied", 1, 2)
      [] opcode = 172 -> Ref("LoadY", "Absolute", 3, 4)
      [] opcode = 173 -> Ref("LoadAccumulator", "Absolute", 3, 4)
      [] opcode = 174 -> Ref("LoadX", "Absolute", 3, 4)
      [] opcode = 176 -> Ref("BranchOnCarrySet", "RelativeAddress", 2, 2)
      [] opcode = 177 -> Ref("LoadAccumulator", "PostindexedIndirect", 2, 5)
      [] opcode = 180 -> Ref("LoadY", "IndexedZeropage", 2, 4)
      [] opcode = 181 -> Ref("LoadAccumulator", "IndexedZeropage", 2, 4)
      [] opcode = 182 -> Ref("LoadX", "IndexedZeropage", 2, 4)
      [] opcode = 184 -> Ref("ClearOverflow", "Implied", 1, 2)
      [] opcode = 185 -> Ref("LoadAccumulator", "IndexedAbsolute", 3, 4)
      [] opcode = 186 -> Ref("TransferStackPointerToX", "Implied", 1, 2)
      [] opcode = 188 -> Ref("LoadY", "IndexedAbsolute", 3, 4)
      [] opcode = 189 -> Ref("LoadAccumulator", "IndexedAbsolute", 3, 4)
      [] opcode = 190 -> Ref("LoadX", "IndexedAbsolute", 3, 4)
      [] opcode = 192 -> Ref("CompareWithY", "Immediate", 2, 2)
      [] opcode = 193 -> Ref("CompareWithAccumulator", "PreindexedIndirect", 2, 6)
      [] opcode = 196 -> Ref("CompareWithY", "Zeropage", 2, 3)
      [] opcode = 197 -> Ref("CompareWithAccumulator", "Zeropage", 2, 3)
      [] opcode = 198 -> Ref("DecrementMemory", "Zeropage", 2, 5)
      [] opcode = 200 -> Ref("IncrementY", "Implied", 1, 2)
      [] opcode = 201 -> Ref("CompareWithAccumulator", "Immediate", 2, 2)
      [] opcode = 202 -> Ref("DecrementX", "Implied", 1, 2)
      [] opcode = 204 -> Ref("CompareWithY", "Absolute", 3, 4)
      [] opcode = 205 -> Ref("CompareWithAccumulator", "Absolute", 3, 4)
      [] opcode = 206 -> Ref("DecrementMemory", "Absolute", 3, 6)
      [] opcode = 208 -> Ref("BranchOnNotEqual", "RelativeAddress", 2, 2)
      [] opcode = 209 -> Ref("CompareWithAccumulator", "PostindexedIndirect", 2, 5)
      [] opcode = 213 -> Ref("CompareWithAccumulator", "IndexedZeropage", 2, 4)
      [] opcode = 214 -> Ref("DecrementMemory", "IndexedZeropage", 2, 6)
      [] opcode = 216 -> Ref("ClearDecimal", "Implied", 1, 2)
      [] opcode = 217 -> Ref("CompareWithAccumulator", "IndexedAbsolute", 3, 4)
      [] opcode = 221 -> Ref("CompareWithAccumulator", "IndexedAbsolute", 3, 4)
      [] opcode = 222 -> Ref("DecrementMemory", "IndexedAbsolute", 3, 7)
      [] opcode = 224 -> Ref("CompareWithX", "Immediate", 2, 2)
      [] opcode = 225 -> Ref("SubtractWithCarry", "PreindexedIndirect", 2, 6)
      [] opcode = 228 -> Ref("CompareWithX", "Zeropage", 2, 3)
      [] opcode = 229 -> Ref("SubtractWithCarry", "Zeropage", 2, 3)
      [] opcode = 230 -> Ref("IncrementMemory", "Zeropage", 2, 5)
      [] opcode = 232 -> Ref("IncrementX", "Implied", 1, 2)
      [] opcode = 233 -> Ref("SubtractWithCarry", "Immediate", 2, 2)
      [] opcode = 234 -> Ref("NoOperation", "Implied", 1, 2)
      [] opcode = 236 -> Ref("CompareWithX", "Absolute", 3, 4)
      [] opcode = 237 -> Ref("SubtractWithCarry", "Absolute", 3, 4)
      [] opcode = 238 -> Ref("IncrementMemory", "Absolute", 3, 6)
      [] opcode = 240 -> Ref("BranchOnEqual", "RelativeAddress", 2, 2)
      [] opcode = 241 -> Ref("SubtractWithCarry", "PostindexedIndirect", 2, 5)
      [] opcode = 245 -> Ref("SubtractWithCarry", "IndexedZeropage", 2, 4)
      [] opcode = 246 -> Ref("IncrementMemory", "IndexedZeropage", 2, 6)
      [] opcode = 248 -> Ref("SetDecimal", "Implied", 1, 2)
      [] opcode = 249 -> Ref("SubtractWithCarry", "IndexedAbsolute", 3, 4)
      [] opcode = 253 -> Ref("SubtractWithCarry", "IndexedAbsolute", 3, 4)
      [] opcode = 254 -> Ref("IncrementMemory", "IndexedAbsolute", 3, 7)

-----------------------------------------------------------------------------
(* Properties of fetch *)

(* the byte length the addressing mode of an instruction dictates *)
ModeLength(mode) ==
    CASE mode = "Implied" -> 1
      [] mode \in {"Immediate", "Zeropage", "IndexedZeropage", "PreindexedIndirect",
                   "PostindexedIndirect", "RelativeAddress"} -> 2
      [] mode \in {"Absolute", "IndexedAbsolute", "Indirect"} -> 3

RECURSIVE SumOfLengths(_)
SumOfLengths(instructions) ==
    IF instructions = <<>> THEN 0
    ELSE ModeLength(Head(instructions).addressing.mode) + SumOfLengths(Tail(instructions))

(* the last call was a fetch *)
Fetched == last.op = "fetch"

(* pc, x and y before the last fetch, the opcode byte it read *)
FetchPc == last.args[1]
FetchX == last.args[2]
FetchY == last.args[3]
FetchOpcode == load(memory, FetchPc).val

(* the byte k places after the opcode of the last fetch *)
FetchByte(k) == load(memory, (FetchPc + k) % 65536).val

(* C1: a successful fetch leaves pc = pc before + the length of the        *)
(* addressing mode of the instruction returned (1, 2 or 3), modulo 2^16;   *)
(* after successful fetches started at pc0, pc = pc0 + the sum of the      *)
(* lengths of the instructions returned, modulo 2^16.                      *)
C1_FetchAdvancesByModeLength ==
    /\ (Fetched /\ IsOk(last.res)) =>
           pc = (FetchPc + ModeLength(last.res.val.addressing.mode)) % 65536
    /\ phase \in {"cpu", "panicked"} => pc = (pc0 + SumOfLengths(consumed)) % 65536

C1_Witness ==
    /\ Fetched /\ IsOk(last.res)
    /\ Len(consumed) = 3
    /\ consumed[1].addressing.mode = "Implied"
    /\ consumed[2].addressing.mode = "IndexedAbsolute"
    /\ consumed[3].addressing.mode = "Implied"
    /\ pc = pc0 + 5

(* C2 as stated: in every state of a Cpu, pc lies within [0, memory.size). *)
C2_PcWithinMemory ==
    phase \in {"cpu", "panicked"} => (0 <= pc /\ pc < memory.size)

(* C2: pc is a 16-bit value; it is inside the memory after Cpu::new, but a *)
(* reset whose vector points at or beyond memory.size, or a fetch that     *)
(* ends at the last byte of the memory, leaves pc >= memory.size; a fetch  *)
(* from such a pc returns an OutOfRangeError and leaves the Cpu as it was. *)
C2_PcIsU16 ==
    phase \in {"cpu", "panicked"} =>
        /\ pc \in 0 .. 65535
        /\ last.op = "Cpu::new" => (pc = 4096 /\ pc < memory.size)
        /\ pc >= memory.size =>
               /\ IsErr(fetch(overflow_checks, TheCpu).res)
               /\ fetch(overflow_checks, TheCpu).cpu = TheCpu

C2_Witness ==
    /\ phase = "cpu" /\ Fetched /\ IsErr(last.res)
    /\ pc >= memory.size /\ FetchPc = pc
    /\ Len(consumed) = 1

(* the length of the instruction at the pc of the last fetch: the          *)
(* reference length of a documented opcode, 1 for any other byte           *)
FetchLength ==
    IF FetchOpcode \in DocumentedOpcodes THEN Reference(FetchOpcode).length ELSE 1

(* C3: on a 65536-byte memory a fetch whose pc + length exceeds 0xFFFF     *)
(* succeeds, returns the decoded instruction and leaves                    *)
(* pc = (pc + length) mod 65536.                                           *)
C3_FetchWrapsPc ==
    (Fetched /\ memory.size = 65536 /\ FetchPc + FetchLength > 65535) =>
        /\ IsOk(last.res)
        /\ last.res.val.operation = Decode(FetchOpcode).operation
        /\ pc = (FetchPc + FetchLength) % 65536

(* C4: for each documented opcode, a fetch on a memory holding the opcode  *)
(* and all its operand bytes in range returns the operation, addressing    *)
(* mode and cycle_count of the reference table and advances pc by the      *)
(* reference length.                                                       *)
C4_DocumentedOpcodes ==
    (/\ Fetched
     /\ FetchPc < memory.size
     /\ FetchOpcode \in DocumentedOpcodes
     /\ FetchPc + FetchLength - 1 < memory.size) =>
        /\ IsOk(last.res)
        /\ last.res.val.operation = Reference(FetchOpcode).operation
        /\ last.res.val.addressing.mode = Reference(FetchOpcode).mode
        /\ last.res.val.cycle_count = Reference(FetchOpcode).cycle_count
        /\ pc = (FetchPc + Reference(FetchOpcode).length) % 65536

(* C5: for an opcode byte outside the documented set, and for 0xEA, a      *)
(* fetch with pc in range returns {NoOperation, Implied, cycle_count 2}    *)
(* and advances pc by 1.                                                   *)
C5_UndocumentedOpcodes ==
    (/\ Fetched
     /\ FetchPc < memory.size
     /\ (FetchOpcode \notin DocumentedOpcodes \/ FetchOpcode = 234)) =>
        /\ IsOk(last.res)
        /\ last.res.val = Instruction("NoOperation", Addressing("Implied", <<>>), 2)
        /\ pc = (FetchPc + 1) % 65536

(* C6: the Addressing payload of a successful fetch at pc = p: nothing for *)
(* Implied; the byte mem[p+1] for the modes of one operand byte; the word  *)
(* mem[p+1] | (mem[p+2] << 8) for Absolute, IndexedAbsolute and Indirect;  *)
(* and, second, for the indexed modes the value at the time of the fetch   *)
(* of the register the opcode names: y for the Y-indexed opcodes (0x96,    *)
(* 0xB6 and 0xBE among them), x for the others.  Addresses are 16-bit.     *)
C6_AddressingPayload ==
    (Fetched /\ IsOk(last.res)) =>
        LET ad    == last.res.val.addressing
            byte  == FetchByte(1)
            word  == FetchByte(1) + 256 * FetchByte(2)
            index == IF FetchOpcode \in YIndexedOpcodes THEN FetchY ELSE FetchX
        IN  CASE ad.mode = "Implied" -> ad.args = <<>>
              [] ad.mode \in {"Immediate", "Zeropage", "RelativeAddress"} ->
                    ad.args = <<byte>>
              [] ad.mode \in {"IndexedZeropage", "PreindexedIndirect",
                              "PostindexedIndirect"} -> ad.args = <<byte, index>>
              [] ad.mode \in {"Absolute", "Indirect"} -> ad.args = <<word>>
              [] ad.mode = "IndexedAbsolute" -> ad.args = <<word, index>>

C6_Witness ==
    /\ Fetched /\ IsOk(last.res)
    /\ FetchOpcode = 190
    /\ FetchX = 8 /\ FetchY = 9
    /\ last.res.val.addressing = Addressing("IndexedAbsolute", <<41482, 9>>)

(* the last call was a reset; pc, x, y and sr before it; the word the      *)
(* reset vector holds                                                      *)
WasReset == last.op = "reset"
ResetX == last.args[2]
ResetY == last.args[3]
ResetSr == last.args[4]
VectorWord == load(memory, 65532).val + 256 * load(memory, 65533).val

(* C13: on a memory of size >= 0xFFFE reset() returns and leaves           *)
(* pc = mem[0xFFFC] | (mem[0xFFFD] << 8), sp = 0xFF, a = x = sr = 0 and    *)
(* cycles_busy = 1, and changes no memory byte.                            *)
C13_ResetLoadsVector ==
    /\ []((WasReset /\ memory.size >= 65534) =>
              /\ IsOk(last.res)
              /\ pc = VectorWord
              /\ sp = 255 /\ a = 0 /\ x = 0 /\ sr = 0
              /\ cycles_busy = 1)
    /\ [][last'.op = "reset" =>
              memory' = memory /\ SameBytesOutside(memory, memory', 0, 0)]_vars

C13_Witness ==
    /\ WasReset /\ IsOk(last.res)
    /\ ResetX = 8 /\ ResetSr = 128
    /\ memory.size = 65536
    /\ pc = 65534 /\ x = 0 /\ sr = 0 /\ cycles_busy = 1

(* C14 as stated: after a successful reset, y = 0 whatever it was before.  *)
C14_ResetClearsY ==
    (WasReset /\ IsOk(last.res)) => y = 0

(* C14: reset does not assign y: after a successful reset y is what it was *)
(* before the call, so it is 0 only if it was 0.                           *)
C14_ResetKeepsY ==
    (WasReset /\ IsOk(last.res)) => y = ResetY

C14_Witness ==
    WasReset /\ IsOk(last.res) /\ ResetY = 9 /\ y = 9 /\ x = 0

(* C15: reset() on a memory of size <= 0xFFFD returns an out-of-range      *)
(* error to its caller as a value, without aborting; it succeeds for every *)
(* size >= 0xFFFE.                                                         *)
C15_ResetPropagatesError ==
    WasReset =>
        /\ memory.size <= 65533 => (IsErr(last.res) /\ phase = "cpu")
        /\ memory.size >= 65534 => IsOk(last.res)

-----------------------------------------------------------------------------
(* SpecAddr: a Cpu over a memory image, its pc placed by reset, asked to   *)
(* read words and to resolve Addressing values                             *)

AddrSizes == {16 * 1024, MaxAddress, MaxAddress + 1}

(* the values the reset vector gives pc *)
AddrVectors == {0, 128, 770, MaxAddress - 127, MaxAddress}

(* [0xab, 0xcd] at 0x0000 and [0xdc, 0xba] at 0xfffe                       *)
(* (loads_little_endian_word), a pointer 0xffff at 0x10, a pointer 0x1234  *)
(* across the end of the zero page at 0xff, and the reset vector; the      *)
(* branches BMI -128 at 0x20, BNE +1 at 0x80, BPL -2 at 0x302, BEQ -128 at *)
(* 0x1000 and BCC +127 at 0xff80                                           *)
AddrImage(size, vector) ==
    StoreAll(Memory_new(size).val,
             << <<0, 171>>, <<1, 205>>, <<16, 255>>, <<17, 255>>,
                <<255, 52>>, <<256, 18>>,
                <<32, 48>>, <<33, 128>>, <<128, 208>>, <<129, 1>>,
                <<770, 16>>, <<771, 254>>,
                <<CartridgeStart, 240>>, <<CartridgeStart + 1, 128>>,
                <<MaxAddress - 127, 144>>, <<MaxAddress - 126, 127>>,
                <<ResetVector, vector % U8>>, <<ResetVector + 1, vector \div U8>>,
                <<MaxAddress - 1, 220>>, <<MaxAddress, 186>> >>)

WordAddrs ==
    {0, 16, 255, 16 * 1024 - 2, 16 * 1024 - 1, 16 * 1024,
     MaxAddress - 2, MaxAddress - 1, MaxAddress}

ByteArgs == {0, 16, 127, 128, 255}

OffsetArgs == {0, 1, 255}

RelativeArgs == {0, 1, 127, 128, 254, 255}

Addressings ==
    {Addressing("Implied", <<>>)}
    \cup {Addressing(m, <<n>>) : m \in {"Immediate", "Zeropage"}, n \in ByteArgs}
    \cup {Addressing("RelativeAddress", <<o>>) : o \in RelativeArgs}
    \cup {Addressing(m, <<w>>) : m \in {"Absolute", "Indirect"}, w \in WordAddrs}
    \cup {Addressing("IndexedAbsolute", <<w, o>>) : w \in WordAddrs, o \in OffsetArgs}
    \cup {Addressing(m, <<n, o>>) :
              m \in {"IndexedZeropage", "PreindexedIndirect", "PostindexedIndirect"},
              n \in ByteArgs, o \in OffsetArgs}

InitAddr ==
    \E checked \in BOOLEAN, size \in AddrSizes, vector \in AddrVectors :
        \E cpu \in {Cpu_new(AddrImage(size, vector))} :
            /\ phase = "cpu"
            /\ overflow_checks = checked
            /\ sp = cpu.sp /\ pc = cpu.pc /\ a = cpu.a /\ x = cpu.x /\ y = cpu.y
            /\ sr = cpu.sr /\ memory = cpu.memory /\ cycles_busy = cpu.cycles_busy
            /\ last = Call("Cpu::new", <<>>, Ok(<<>>))
            /\ calls = 0
            /\ pc0 = cpu.pc /\ consumed = <<>>
            /\ written = NoWrites

(* cpu.load_little_endian_u16(addr): takes &self *)
CpuLoadWord(addr) ==
    /\ phase = "cpu"
    /\ \E r \in {load_little_endian_u16(overflow_checks, TheCpu, addr)} :
           /\ last' = Call("load_little_endian_u16", <<addr>>, r)
           /\ phase' = IF IsPanic(r) THEN "panicked" ELSE phase
    /\ UNCHANGED <<overflow_checks, memory, cpuRegs, calls, pc0, consumed, written>>

(* cpu.get_effective_address(addressing): takes &self *)
CpuGetEffectiveAddress(addressing) ==
    /\ phase = "cpu"
    /\ \E r \in {get_effective_address(overflow_checks, TheCpu, addressing)} :
           /\ last' = Call("get_effective_address", <<addressing, pc>>, r)
           /\ phase' = IF IsPanic(r) THEN "panicked" ELSE phase
    /\ UNCHANGED <<overflow_checks, memory, cpuRegs, calls, pc0, consumed, written>>

CpuGetOperand_advances_pc(addressing) ==
    /\ phase = "cpu"
    /\ \E r \in {get_operand(overflow_checks, TheCpu, addressing)} :
           /\ last' = Call("get_operand", <<addressing, pc>>, r)
           /\ phase' = IF IsPanic(r) THEN "panicked" ELSE phase
    /\ pc' = (pc + 1) % U16
    /\ UNCHANGED <<overflow_checks, memory, a, x, y, sp, sr, cycles_busy,
                   calls, pc0, consumed, written>>

(* cpu.get_operand(addressing): takes &self *)
CpuGetOperand(addressing) ==
    /\ phase = "cpu"
    /\ \E r \in {get_operand(overflow_checks, TheCpu, addressing)} :
           /\ last' = Call("get_operand", <<addressing, pc>>, r)
           /\ phase' = IF IsPanic(r) THEN "panicked" ELSE phase
    /\ UNCHANGED <<overflow_checks, memory, cpuRegs, calls, pc0, consumed, written>>

(* the addressings get_operand is called with: every mode, with operands   *)
(* on both sides of the end of memory and of the 16-bit range              *)
OperandAddressings ==
    {Addressing("Implied", <<>>)}
    \cup {Addressing("Immediate", <<n>>) : n \in ByteArgs}
    \cup {Addressing("Zeropage", <<n>>) : n \in {0, 255}}
    \cup {Addressing("RelativeAddress", <<o>>) : o \in {1, 128}}
    \cup {Addressing("Absolute", <<w>>) : w \in WordAddrs}
    \cup {Addressing("Indirect", <<w>>) : w \in {0, MaxAddress}}
    \cup {Addressing("IndexedAbsolute", <<w, o>>) :
              w \in {16 * 1024 - 1, MaxAddress}, o \in {0, 1}}
    \cup {Addressing(m, <<n, o>>) :
              m \in {"IndexedZeropage", "PreindexedIndirect", "PostindexedIndirect"},
              n \in {16, 255}, o \in {0, 1}}

NextAddr ==
    \/ CpuReset
    \/ \E addr \in WordAddrs : CpuLoadWord(addr)
    \/ \E addressing \in Addressings : CpuGetEffectiveAddress(addressing)
    \/ \E addressing \in OperandAddressings : CpuGetOperand(addressing)

SpecAddr == InitAddr /\ [][NextAddr]_vars

-----------------------------------------------------------------------------
(* SpecRun: the fetch -> resolve cycle over the same images: fetch, then   *)
(* the effective address or the operand of the instruction it returned,    *)
(* with resets and flag operations in between                              *)

(* the reset vectors that point at the branches of AddrImage *)
RunVectors == {32, 128, 770, MaxAddress - 127}

InitRun ==
    \E checked \in BOOLEAN, size \in AddrSizes, vector \in RunVectors :
        \E cpu \in {Cpu_new(AddrImage(size, vector))} :
            /\ phase = "cpu"
            /\ overflow_checks = checked
            /\ sp = cpu.sp /\ pc = cpu.pc /\ a = cpu.a /\ x = cpu.x /\ y = cpu.y
            /\ sr = cpu.sr /\ memory = cpu.memory /\ cycles_busy = cpu.cycles_busy
            /\ last = Call("Cpu::new", <<>>, Ok(<<>>))
            /\ calls = 0
            /\ pc0 = cpu.pc /\ consumed = <<>>
            /\ written = NoWrites

(* cpu.get_flag(flag): takes &self *)
CpuGetFlag(flag) ==
    /\ phase = "cpu"
    /\ last' = Call("get_flag", <<flag, sr>>, Ok(get_flag(TheCpu, flag)))
    /\ UNCHANGED <<phase, overflow_checks, memory, cpuRegs, calls, pc0, consumed, written>>

(* cpu.clear_flag(flag) *)
CpuClearFlag(flag) ==
    /\ phase = "cpu"
    /\ BecomesCpu(clear_flag(TheCpu, flag))
    /\ last' = Call("clear_flag", <<flag, sr>>, Ok(<<>>))
    /\ UNCHANGED <<phase, overflow_checks, calls, pc0, consumed, written>>

(* the instruction the last call, a fetch, returned *)
JustFetched == last.op = "fetch" /\ IsOk(last.res)

(* cpu.get_effective_address(instruction.addressing) *)
CpuResolveFetched ==
    /\ JustFetched
    /\ CpuGetEffectiveAddress(last.res.val.addressing)

(* cpu.get_operand(instruction.addressing) *)
CpuOperandFetched ==
    /\ JustFetched
    /\ CpuGetOperand(last.res.val.addressing)

RunFlags == {"Carry", "Negative"}

NextRun ==
    \/ CpuReset
    \/ CpuFetch
    \/ CpuResolveFetched
    \/ CpuOperandFetched
    \/ \E flag \in RunFlags : CpuSetFlag(flag)
    \/ \E flag \in RunFlags : CpuClearFlag(flag)
    \/ \E flag \in RunFlags : CpuGetFlag(flag)

SpecRun == InitRun /\ [][NextRun]_vars

-----------------------------------------------------------------------------
(* SpecFlags: cpu/flags.rs on a Cpu fresh from Cpu::new(Memory::new(64K)), *)
(* with sr assigned as the tests assign it                                 *)

(* the variants of enum CpuFlags *)
CpuFlags ==
    {"Carry", "Zero", "InterruptDisable", "_Decimal", "BreakFlag", "_Unused",
     "Overflow", "Negative"}

(* cpu.sr = 0b10101010, cpu.sr = !cpu.sr, cpu.sr = 0b11111111 *)
SrValues == {170, 85, 255}

InitFlags ==
    \E checked \in BOOLEAN :
        \E cpu \in {Cpu_new(Memory_new(MaxAddress + 1).val)} :
            /\ phase = "cpu"
            /\ overflow_checks = checked
            /\ sp = cpu.sp /\ pc = cpu.pc /\ a = cpu.a /\ x = cpu.x /\ y = cpu.y
            /\ sr = cpu.sr /\ memory = cpu.memory /\ cycles_busy = cpu.cycles_busy
            /\ last = Call("Cpu::new", <<>>, Ok(<<>>))
            /\ calls = 0
            /\ pc0 = cpu.pc /\ consumed = <<>>
            /\ written = NoWrites

(* cpu.sr = value *)
SetSr(value) ==
    /\ phase = "cpu"
    /\ sr' = value
    /\ last' = Call("set_sr", <<value>>, Ok(<<>>))
    /\ UNCHANGED <<phase, overflow_checks, memory, pc, a, x, y, sp, cycles_busy,
                   calls, pc0, consumed, written>>

NextFlags ==
    \/ \E value \in SrValues : SetSr(value)
    \/ \E flag \in CpuFlags : CpuGetFlag(flag)
    \/ \E flag \in CpuFlags : CpuSetFlag(flag)
    \/ \E flag \in CpuFlags : CpuClearFlag(flag)

SpecFlags == InitFlags /\ [][NextFlags]_vars

-----------------------------------------------------------------------------
(* Properties of load_little_endian_u16 and get_effective_address *)

(* the little-endian word held at addr and addr + 1 *)
WordAt(addr) == load(memory, addr).val + 256 * load(memory, addr + 1).val

LoadedWord == last.op = "load_little_endian_u16"

(* C16: load_little_endian_u16(addr) returns                               *)
(* load(addr) | (load(addr + 1) << 8) when addr + 1 < size, and an         *)
(* OutOfRangeError when addr >= size or addr + 1 >= size with              *)
(* addr < 0xFFFF; it changes neither memory nor registers.                 *)
C16_LoadWord ==
    /\ [](LoadedWord =>
              /\ last.args[1] + 1 < memory.size => last.res = Ok(WordAt(last.args[1]))
              /\ (last.args[1] + 1 >= memory.size /\ last.args[1] < 65535) =>
                     IsErr(last.res))
    /\ [][last'.op = "load_little_endian_u16" =>
              /\ memory' = memory
              /\ <<pc', a', x', y', sp', sr', cycles_busy'>> =
                     <<pc, a, x, y, sp, sr, cycles_busy>>]_vars

C16_Witness ==
    /\ LoadedWord /\ last.args[1] = 65534 /\ memory.size = 65536
    /\ last.res = Ok(47836)

(* C17: load_little_endian_u16(0xFFFF) on a 65536-byte memory fails: it    *)
(* returns no word (address 0x0000 is not read as the high byte).          *)
C17_TopWordFails ==
    (LoadedWord /\ last.args[1] = 65535 /\ memory.size = 65536) => ~IsOk(last.res)

ResolvedAddress == last.op = "get_effective_address"
ResolvedMode == last.args[1].mode
ResolvedArgs == last.args[1].args
ResolvedPc == last.args[2]

(* C18: get_effective_address returns addr for Absolute(addr), n for       *)
(* Zeropage(n), base + off for IndexedAbsolute(base, off) and the plain    *)
(* sum n + off (up to 0x1FE) for IndexedZeropage(n, off) and               *)
(* PreindexedIndirect(n, off), whenever the sum fits in 16 bits, whatever  *)
(* the memory holds or however small it is.                                *)
C18_DirectAddresses ==
    ResolvedAddress =>
        /\ ResolvedMode \in {"Absolute", "Zeropage"} => last.res = Ok(ResolvedArgs[1])
        /\ (ResolvedMode = "IndexedAbsolute" /\ ResolvedArgs[1] + ResolvedArgs[2] <= 65535) =>
               last.res = Ok(ResolvedArgs[1] + ResolvedArgs[2])
        /\ ResolvedMode \in {"IndexedZeropage", "PreindexedIndirect"} =>
               last.res = Ok(ResolvedArgs[1] + ResolvedArgs[2])

C18_Witness ==
    /\ ResolvedAddress
    /\ last.args[1] = Addressing("PreindexedIndirect", <<255, 255>>)
    /\ last.res = Ok(510)
    /\ memory.size = 16384

(* C19: get_effective_address(PostindexedIndirect(n, off)) returns         *)
(* (mem[n] | (mem[n+1] << 8)) + off; get_effective_address(Indirect(addr)) *)
(* returns mem[addr] | (mem[addr+1] << 8), and a MemoryBoundsError when    *)
(* addr or addr + 1 is >= size.                                            *)
C19_IndirectAddresses ==
    ResolvedAddress =>
        /\ ResolvedMode = "PostindexedIndirect" =>
               last.res = Ok((WordAt(ResolvedArgs[1]) + ResolvedArgs[2]) % 65536)
        /\ (ResolvedMode = "Indirect" /\ ResolvedArgs[1] + 1 < memory.size) =>
               last.res = Ok(WordAt(ResolvedArgs[1]))
        /\ (ResolvedMode = "Indirect" /\ ResolvedArgs[1] + 1 >= memory.size) =>
               /\ IsErr(last.res)
               /\ DOMAIN last.res.val = {"MemoryBoundsError"}

(* o read as a signed 8-bit value *)
Signed8(o) == IF o >= 128 THEN o - 256 ELSE o

(* C20: get_effective_address(RelativeAddress(o)) is pc + o when bit 7 of  *)
(* o is clear and pc - (256 - o) when it is set, with the Cpu's current    *)
(* pc, whenever that result lies in 0..0xFFFF.                             *)
C20_RelativeAddress ==
    (/\ ResolvedAddress
     /\ ResolvedMode = "RelativeAddress"
     /\ ResolvedPc + Signed8(ResolvedArgs[1]) \in 0 .. 65535) =>
        /\ ResolvedPc = pc
        /\ last.res = Ok(pc + Signed8(ResolvedArgs[1]))

C20_Witness ==
    /\ ResolvedAddress
    /\ last.args[1] = Addressing("RelativeAddress", <<128>>)
    /\ pc = 128
    /\ last.res = Ok(0)

OperandRead == last.op = "get_operand"
OperandMode == last.args[1].mode
OperandArgs == last.args[1].args

(* C21: get_effective_address returns InvalidAddressModeDerefenced for     *)
(* exactly Immediate and Implied, get_operand for exactly Implied and      *)
(* Indirect, whatever the Cpu state and the payload.                       *)
C21_InvalidModes ==
    /\ ResolvedAddress =>
           (last.res = InvalidAddressModeDerefenced
               <=> ResolvedMode \in {"Immediate", "Implied"})
    /\ OperandRead =>
           (last.res = InvalidAddressModeDerefenced
               <=> OperandMode \in {"Implied", "Indirect"})

(* get_operand(Indirect(0)) with the pointer 0xcdab in range *)
C21_Witness ==
    /\ OperandRead
    /\ last.args[1] = Addressing("Indirect", <<0>>)
    /\ memory.size = MaxAddress + 1
    /\ last.res = InvalidAddressModeDerefenced

MemoryModes ==
    {"Absolute", "Zeropage", "IndexedAbsolute", "IndexedZeropage",
     "PreindexedIndirect", "PostindexedIndirect", "RelativeAddress"}

(* what get_effective_address returns for the addressing get_operand was   *)
(* called with (the call changed no register and no byte)                  *)
OperandAddressOf == get_effective_address(overflow_checks, TheCpu, last.args[1])

(* C22: get_operand(Immediate(v)) returns v, whatever memory holds; for    *)
(* the seven modes with an effective address it returns the byte at the    *)
(* address get_effective_address returns for the same addressing, and a    *)
(* MemoryBoundsError when that address is >= size.                         *)
C22_OperandValue ==
    OperandRead =>
        /\ OperandMode = "Immediate" => last.res = Ok(OperandArgs[1])
        /\ (OperandMode \in MemoryModes /\ IsOk(OperandAddressOf)) =>
               IF OperandAddressOf.val >= memory.size
               THEN /\ IsErr(last.res)
                    /\ DOMAIN last.res.val = {"MemoryBoundsError"}
               ELSE last.res = Ok(DataAt(memory.data, OperandAddressOf.val))

(* the byte 0xdc at 0xfffe, and the byte after the end of a 16K memory *)
C22_Witness ==
    /\ OperandRead
    /\ \/ /\ last.args[1] = Addressing("Absolute", <<MaxAddress - 1>>)
          /\ memory.size = MaxAddress + 1
          /\ last.res = Ok(220)
       \/ /\ last.args[1] = Addressing("IndexedAbsolute", <<16 * 1024 - 1, 1>>)
          /\ memory.size = 16 * 1024
          /\ IsErr(last.res)

(* C23: get_effective_address and get_operand never abort: for every       *)
(* addressing and every Cpu state they return a value or a CpuError,       *)
(* also when base + off, pointer + off or pc + offset leaves 0 .. 0xFFFF.  *)
C23_NoAbort ==
    (ResolvedAddress \/ OperandRead) => ~IsPanic(last.res)

(* C24: get_effective_address, get_operand and load_little_endian_u16      *)
(* change no register and no memory byte, whether they succeed or fail.    *)
C24_ReadOnly ==
    [][last'.op \in {"get_effective_address", "get_operand", "load_little_endian_u16"}
          => UNCHANGED <<memory, cpuRegs>>]_vars

(* an operand read after a reset that moved pc to 0x0302 *)
C24_Witness ==
    /\ OperandRead /\ IsErr(last.res)
    /\ cycles_busy = 1 /\ pc = 770

(* the bit positions the claim gives *)
NamedFlags == {"Carry", "Zero", "InterruptDisable", "BreakFlag", "Overflow", "Negative"}

Position(flag) ==
    CASE flag = "Carry" -> 0
      [] flag = "Zero" -> 1
      [] flag = "InterruptDisable" -> 2
      [] flag = "BreakFlag" -> 4
      [] flag = "Overflow" -> 6
      [] flag = "Negative" -> 7

BitOf(value, i) == (value \div 2 ^ i) % 2

SameBitsBut(v1, v2, i) == \A j \in (0 .. 7) \ {i} : BitOf(v1, j) = BitOf(v2, j)

(* C25: for the six named flags get_flag(f) is true exactly when bit       *)
(* pos(f) of sr is 1 and changes nothing; set_flag(f) sets that bit and    *)
(* clear_flag(f) clears it, leaving the other seven bits of sr, the other  *)
(* registers and memory as they were; so bits 3 and 5 of sr never change.  *)
C25_FlagOps ==
    [][(last'.op \in {"get_flag", "set_flag", "clear_flag"} /\ last'.args[1] \in NamedFlags)
          => /\ UNCHANGED <<memory, pc, a, x, y, sp, cycles_busy>>
             /\ last'.op = "get_flag" =>
                    /\ sr' = sr
                    /\ last'.res = Ok(BitOf(sr, Position(last'.args[1])) = 1)
             /\ last'.op = "set_flag" =>
                    /\ BitOf(sr', Position(last'.args[1])) = 1
                    /\ SameBitsBut(sr', sr, Position(last'.args[1]))
             /\ last'.op = "clear_flag" =>
                    /\ BitOf(sr', Position(last'.args[1])) = 0
                    /\ SameBitsBut(sr', sr, Position(last'.args[1]))
             /\ BitOf(sr', 3) = BitOf(sr, 3)
             /\ BitOf(sr', 5) = BitOf(sr, 5)]_vars

(* the sixth set_flag on sr = 0 gives 0b11010111, the sixth clear_flag on  *)
(* sr = 0xFF gives 0b00101000                                              *)
C25_Witness ==
    \/ last.op = "set_flag" /\ last.args = <<"Negative", 87>> /\ sr = 215
    \/ last.op = "clear_flag" /\ last.args = <<"Negative", 168>> /\ sr = 40

(* C26: fetch, whether it succeeds or fails, changes nothing but pc: a, x, *)
(* y, sp, sr, cycles_busy and every memory byte are as before the call.    *)
C26_FetchFrame ==
    [][last'.op = "fetch" => UNCHANGED <<memory, a, x, y, sp, sr, cycles_busy>>]_vars

(* a fetch that moved pc with x, sr and cycles_busy all set before it *)
C26_Witness ==
    /\ Fetched /\ IsOk(last.res) /\ pc # FetchPc
    /\ x # 0 /\ sr = 128 /\ cycles_busy = 1

(* the instruction_size of the arm the opcode of the last fetch selects *)
FetchArmSize == Decode(FetchOpcode).size

(* C27: a fetch that returns an OutOfRangeError (pc >= size, or an operand *)
(* byte at pc + 1 or pc + 2 >= size on a memory smaller than 65536 bytes)  *)
(* leaves pc unchanged, and the fetch repeated at once returns the same    *)
(* error.                                                                  *)
C27_FailedFetchKeepsPc ==
    Fetched =>
        /\ FetchPc >= memory.size => IsErr(last.res)
        /\ (/\ FetchPc < memory.size /\ memory.size < 65536
            /\ FetchPc + FetchArmSize - 1 >= memory.size) => IsErr(last.res)
        /\ IsErr(last.res) =>
               /\ pc = FetchPc
               /\ fetch(overflow_checks, TheCpu).res = last.res
               /\ fetch(overflow_checks, TheCpu).cpu = TheCpu

(* a three-byte opcode at the last address of a 65535-byte memory *)
C27_Witness ==
    /\ Fetched /\ IsErr(last.res)
    /\ memory.size = MaxAddress /\ FetchPc = memory.size - 1
    /\ FetchArmSize = 3

(* C28: cycles_busy is 0 or 1 in every reachable state: 0 from Cpu::new    *)
(* until the first successful reset, 1 in every state after it; no fetch,  *)
(* flag operation or address or operand resolution changes it (only a      *)
(* successful reset assigns it, and it assigns 1).                         *)
C28_CyclesBusy ==
    /\ [](cycles_busy \in {0, 1})
    /\ [](last.op = "Cpu::new" => cycles_busy = 0)
    /\ [][cycles_busy' # cycles_busy => (last'.op = "reset" /\ IsOk(last'.res))]_vars
    /\ [][(last'.op = "reset" /\ IsOk(last'.res)) => cycles_busy' = 1]_vars

(* reset, set_flag, fetch and the operand of the branch fetched *)
C28_Witness ==
    /\ cycles_busy = 1 /\ OperandRead
    /\ sr # 0 /\ Len(consumed) = 1 /\ calls = 3

(* the address of the instruction the last fetch returned *)
BranchAddress ==
    (pc0 + SumOfLengths(SubSeq(consumed, 1, Len(consumed) - 1))) % 65536

(* C29: get_effective_address(RelativeAddress(o)) on the instruction a     *)
(* fetch has just returned for a branch opcode at address p returns        *)
(* p + 2 + signed8(o) (as a 16-bit address): the target is relative to the *)
(* instruction after the branch.                                           *)
C29_BranchTarget ==
    (/\ ResolvedAddress /\ ResolvedMode = "RelativeAddress"
     /\ consumed # <<>>
     /\ consumed[Len(consumed)].addressing = last.args[1]
     /\ pc = (BranchAddress + 2) % 65536) =>
        last.res = Ok((BranchAddress + 2 + Signed8(ResolvedArgs[1])) % 65536)

(* the two memories hold the same byte at every address below addr *)
SameBytesBelow(m1, m2, addr) ==
    \A t \in DOMAIN m1.data.runs \cup DOMAIN m2.data.runs \cup {0} :
        (t < addr /\ t < m1.size) => load(m1, t) = load(m2, t)

(* C30: load_rom(addr, bytes) stores to no address below addr: when some   *)
(* addr + i exceeds 0xFFFF the call aborts instead of wrapping around and  *)
(* overwriting the addresses from 0x0000.                                  *)
C30_LoadRomNeverWraps ==
    [][last'.op = "load_rom" =>
          /\ SameBytesBelow(memory, memory', last'.args[1])
          /\ last'.args[1] + Len(last'.args[2]) - 1 > MaxAddress => IsPanic(last'.res)]_vars

====
